---- MODULE Spec2Model ----
(***************************************************************************)
(* Bucket application onto the ledger database (stellar-core):             *)
(*   - BucketApplicator::advance()  (src/bucket/BucketApplicator.cpp)      *)
(*   - DataFrame store operations and the accountdata_bulk staging table   *)
(*     (src/ledger/DataFrame.cpp)                                          *)
(*   - TrustFrame store operations, the trustlines accumulator and the     *)
(*     entry cache (src/ledger/TrustFrame.cpp, src/ledger/EntryFrame.h)    *)
(*                                                                         *)
(* A table is a function from primary key to the set of rows stored under  *)
(* that key (empty: no row).  The cache and the accumulator's mItems are   *)
(* functions whose domain is the set of keys they hold, to a set holding   *)
(* at most one record (empty: nullptr).                                    *)
(***************************************************************************)
EXTENDS Integers, Sequences, FiniteSets, TLC

VARIABLES
    accountdata,      \* table accountdata
    accountdata_bulk, \* table accountdata_bulk
    bulk,             \* write batching in effect (Database::isPG)
    bucket,           \* BucketApplicator: the bucket being applied
    mBucketIter,      \* BucketApplicator::mBucketIter, index of the next entry
    mSize,            \* BucketApplicator::mSize
    adv_calls,        \* static adv_calls: advance() calls that returned
    outcome,          \* how the last advance() ended
    txBegin,          \* the tables as they were when the last advance() began
    iterBegin,        \* mBucketIter when the last advance() began
    failedAt,         \* index of the entry whose write threw last, or -1
    trace,            \* writes issued and transactions begun / committed
    faults,           \* storage faults injected so far
    initStore,        \* which rows accountdata held at construction
    trustlines,       \* table trustlines
    mItems,           \* trustlinesAccumulator::mItems
    cache,            \* Database::getEntryCache()
    delta,            \* the LedgerDelta handed to the last store call
    entryType,        \* the entry type whose store operations are exercised
    lastOp,           \* the last store call: what it was given and how it ended
    headerLedgerSeq,  \* ledgerSeq of the header the store calls' LedgerDelta tracks
    equivIn,          \* batch equivalence: entry type, operations, first rows
    equivOut,         \* batch equivalence: the outcome on either path
    lastRead,         \* the last read since the last store call
    trustFrame,       \* a TrustFrame in memory: its trust line and mIsIssuer
    ledgerVersion,    \* LedgerManager::getCurrentLedgerVersion()
    lastCall,         \* the last call on trustFrame: arguments, result, entry before
    flushIn,          \* accumulator flush: mItems and the table it meets
    flushOut          \* accumulator flush: the statements executed, the table

bucketVars == <<bucket, mBucketIter, mSize, adv_calls, outcome, txBegin,
                iterBegin, failedAt, trace, faults, initStore>>
dataVars == <<accountdata, accountdata_bulk>>
trustVars == <<trustlines, mItems, cache>>
storeVars == <<delta, entryType, lastOp, headerLedgerSeq>>
equivVars == <<equivIn, equivOut>>
readVars == <<lastRead>>
frameVars == <<trustFrame, ledgerVersion, lastCall>>
flushVars == <<flushIn, flushOut>>

vars == <<accountdata, accountdata_bulk, bulk, bucket, mBucketIter, mSize,
          adv_calls, outcome, txBegin, iterBegin, failedAt, trace, faults,
          initStore, trustlines, mItems, cache, delta, entryType, lastOp,
          headerLedgerSeq,
          equivIn, equivOut, lastRead, trustFrame, ledgerVersion,
          lastCall,
          flushIn, flushOut>>

(***************************************************************************)
(* Bounds of the model.                                                    *)
(***************************************************************************)
MaxBucketLen == 513
MaxShape == 1
MaxInitStore == 1
NumValues == 2
MaxCalls == 3
MaxFaults == 1
NumDataKeys == 1
NumTrustKeys == 1
MaxSeqLen == 2
MaxAmount == 3
MaxDelta == 4
MaxFlags == 3
NumFlushKeys == 2
NumAccounts == 1
MaxLedgerSeq == 3

(***************************************************************************)
(* Program constants.                                                      *)
(***************************************************************************)
ChunkMask == 255
BucketLedgerSeq == 0
LiabilitiesVersion == 10
AUTHORIZED_FLAG == 1
\* The largest amount an int64 holds, in a model whose amounts are 0..MaxAmount.
INT64_MAX == MaxAmount

Min(a, b) == IF a < b THEN a ELSE b

(***************************************************************************)
(* Data entries and the accountdata tables.                                *)
(***************************************************************************)
\* decoder::encode_b64 / decode_b64: the stored form of a data value.
encode_b64(v) == [b64 |-> v]
decode_b64(s) == s.b64

DataRow(frame) ==
    [key |-> frame.key, datavalue |-> encode_b64(frame.dataValue),
     lastmodified |-> frame.lastModifiedLedgerSeq]

\* A touch that takes the delta's sequence even when it is 0.
touch_Always(frame, ledgerSeq) ==
    [frame EXCEPT !.lastModifiedLedgerSeq = ledgerSeq]

\* EntryFrame::touch(LedgerDelta const&): a delta tracking ledger sequence 0
\* (bucket import) leaves lastModifiedLedgerSeq alone.
touch(frame, ledgerSeq) ==
    IF ledgerSeq # 0 THEN [frame EXCEPT !.lastModifiedLedgerSeq = ledgerSeq]
    ELSE frame

\* An upsert that adds the row without replacing the one it conflicts with.
Upsert_KeepsOldRow(table, row) ==
    [table |-> [table EXCEPT ![row.key] = @ \cup {row}],
     xmax |-> IF table[row.key] = {} THEN 0 ELSE 1,
     affected |-> 1]

\* INSERT ... ON CONFLICT (key) DO UPDATE SET ... RETURNING xmax:
\* xmax is 0 for a row that was inserted, non-zero for one that was updated.
Upsert(table, row) ==
    [table |-> [table EXCEPT ![row.key] = {row}],
     xmax |-> IF table[row.key] = {} THEN 0 ELSE 1,
     affected |-> 1]

\* UPDATE ... WHERE key = :key
Update(table, row) ==
    [table |-> [table EXCEPT ![row.key] = IF @ = {} THEN {} ELSE {row}],
     xmax |-> 1,
     affected |-> Cardinality(table[row.key])]

\* INSERT ... VALUES: a second row under the primary key is refused.
Insert(table, row) ==
    [table |-> [table EXCEPT ![row.key] = IF @ = {} THEN {row} ELSE @],
     xmax |-> 0,
     affected |-> IF table[row.key] = {} THEN 1 ELSE 0]

\* DELETE FROM table WHERE key = :key
Delete(table, key) == [table EXCEPT ![key] = {}]

\* A storeAddOrChange that goes on whatever row count the statement reports.
DataStoreAddOrChange_AnyRowCount(tabs, from, ledgerSeq, mode, blk) ==
    LET frame == touch(from, ledgerSeq)
        row == DataRow(frame)
        pg == (mode = 0)
        target == IF pg /\ blk THEN "accountdata_bulk" ELSE "accountdata"
        st == IF pg THEN Upsert(tabs[target], row)
              ELSE IF mode = 2 THEN Update(tabs[target], row)
              ELSE Insert(tabs[target], row)
        insert == IF pg THEN st.xmax = 0 ELSE mode # 2
    IN  [tabs |-> [tabs EXCEPT ![target] = st.table],
         threw |-> FALSE,
         delta |-> IF insert THEN "add" ELSE "mod",
         affected |-> st.affected]

\* DataFrame::storeAddOrChange(delta, db, mode, bulk) on the tables
\* tabs = [accountdata, accountdata_bulk].  The result carries the tables,
\* whether the call threw, and what it recorded in the delta.
DataStoreAddOrChange(tabs, from, ledgerSeq, mode, blk) ==
    LET frame == touch(from, ledgerSeq)
        row == DataRow(frame)
        pg == (mode = 0)
        target == IF pg /\ blk THEN "accountdata_bulk" ELSE "accountdata"
        st == IF pg THEN Upsert(tabs[target], row)
              ELSE IF mode = 2 THEN Update(tabs[target], row)
              ELSE Insert(tabs[target], row)
        insert == IF pg THEN st.xmax = 0 ELSE mode # 2
    IN  IF st.affected # 1
        THEN [tabs |-> tabs, threw |-> TRUE, delta |-> "none",
              affected |-> st.affected]
        ELSE [tabs |-> [tabs EXCEPT ![target] = st.table],
              threw |-> FALSE,
              delta |-> IF insert THEN "add" ELSE "mod",
              affected |-> st.affected]

\* A delete that insists on one affected row, as the writes do.
DataStoreDelete_NeedsRow(tabs, key) ==
    IF tabs.accountdata[key] = {}
    THEN [tabs |-> tabs, threw |-> TRUE, delta |-> "none"]
    ELSE [tabs |-> [tabs EXCEPT !.accountdata = [@ EXCEPT ![key] = {}]],
          threw |-> FALSE, delta |-> "del"]

\* DataFrame::storeDelete(delta, db, key)
DataStoreDelete(tabs, key) ==
    [tabs |-> [tabs EXCEPT !.accountdata = Delete(@, key)],
     threw |-> FALSE, delta |-> "del"]

\* A merge that only inserts the staged rows whose key is absent.
mergeAccumulated_InsertOnly(tabs) ==
    [tabs EXCEPT !.accountdata =
        [k \in DOMAIN tabs.accountdata |->
            IF tabs.accountdata[k] = {} THEN tabs.accountdata_bulk[k]
            ELSE tabs.accountdata[k]]]

\* DataFrame::mergeAccumulated: UPDATE accountdata ... FROM accountdata_bulk,
\* then INSERT INTO accountdata SELECT * FROM accountdata_bulk ON CONFLICT DO
\* NOTHING.  The rows of accountdata_bulk stay where they are.
mergeAccumulated(tabs) ==
    LET b == tabs.accountdata_bulk
        updated == [k \in DOMAIN tabs.accountdata |->
                      IF tabs.accountdata[k] # {} /\ b[k] # {}
                      THEN {[r EXCEPT !.datavalue = s.datavalue,
                                      !.lastmodified = s.lastmodified] :
                               r \in tabs.accountdata[k], s \in b[k]}
                      ELSE tabs.accountdata[k]]
        inserted == [k \in DOMAIN updated |->
                      IF updated[k] = {} THEN b[k] ELSE updated[k]]
    IN  [tabs EXCEPT !.accountdata = inserted]

\* DataFrame::loadData(accountID, dataName, db): the entries read back
loadData(table, key) ==
    {[key |-> r.key, dataValue |-> decode_b64(r.datavalue),
      lastModifiedLedgerSeq |-> r.lastmodified] : r \in table[key]}

(***************************************************************************)
(* The Ledger Delta: the keys added, modified and deleted.                 *)
(***************************************************************************)
EmptyDelta == [added |-> {}, modified |-> {}, deleted |-> {}]

addEntry(d, key) == [d EXCEPT !.added = @ \cup {key}]
modEntry(d, key) == [d EXCEPT !.modified = @ \cup {key}]
deleteEntry(d, key) == [d EXCEPT !.deleted = @ \cup {key}]

\* What a store call that reports kind leaves in the delta d.
Record(d, kind, key) ==
    IF kind = "add" THEN addEntry(d, key)
    ELSE IF kind = "mod" THEN modEntry(d, key)
    ELSE IF kind = "del" THEN deleteEntry(d, key)
    ELSE d

(***************************************************************************)
(* Maps whose domain is the set of keys they hold.                         *)
(***************************************************************************)
EmptyMap == [x \in {} |-> {}]
\* A map that keeps the value a key already has.
Put_KeepsFirst(f, k, v) ==
    [x \in (DOMAIN f) \cup {k} |-> IF x \in DOMAIN f THEN f[x] ELSE v]
Put(f, k, v) == [x \in (DOMAIN f) \cup {k} |-> IF x = k THEN v ELSE f[x]]
Erase(f, k) == [x \in (DOMAIN f) \ {k} |-> f[x]]

(***************************************************************************)
(* The entry cache.                                                        *)
(***************************************************************************)
flushCachedEntry(c, key) == Erase(c, key)
cachedEntryExists(c, key) == key \in DOMAIN c
getCachedEntry(c, key) == c[key]
putCachedEntry(c, key, p) == Put(c, key, p)

(***************************************************************************)
(* Trust lines and the trustlines table.                                   *)
(***************************************************************************)
\* KeyUtils::toStrKey / fromStrKey
toStrKey(a) == [strkey |-> a]
fromStrKey(s) == s.strkey

\* LedgerEntryKey
LedgerKeyOf(e) ==
    [accountID |-> e.accountID, issuer |-> e.issuer, assetCode |-> e.assetCode]

\* TrustFrame::getKeyFields: the key columns, and whether it throws
getKeyFields(key) ==
    [accountid |-> toStrKey(key.accountID), issuer |-> toStrKey(key.issuer),
     assetcode |-> key.assetCode]
\* Key columns that are taken whoever the account is.
getKeyFieldsThrows_Never(key) == FALSE
getKeyFieldsThrows(key) == toStrKey(key.accountID) = toStrKey(key.issuer)

\* A column bound with a soci::indicator: i_null stores NULL.
Column(v, ind) ==
    IF ind = "i_ok" THEN [null |-> FALSE, val |-> v]
    ELSE [null |-> TRUE, val |-> 0]

\* trustlinesAccumulator::valType as storeAddOrChange fills it
ValOf(e) ==
    LET ind == IF e.extV = 1 THEN "i_ok" ELSE "i_null"
    IN  [assettype |-> e.assetType, balance |-> e.balance, limit |-> e.limit,
         flags |-> e.flags, lastmodified |-> e.lastModifiedLedgerSeq,
         buyingliabilities |-> IF e.extV = 1 THEN e.buying ELSE 0,
         buyingliabilitiesInd |-> ind,
         sellingliabilities |-> IF e.extV = 1 THEN e.selling ELSE 0,
         sellingliabilitiesInd |-> ind]

\* The row the statement's bindings make of a key and a value record.
TrustRow(k, val) ==
    [key |-> k, assettype |-> val.assettype, balance |-> val.balance,
     tlimit |-> val.limit, flags |-> val.flags,
     lastmodified |-> val.lastmodified,
     buyingliabilities |->
         Column(val.buyingliabilities, val.buyingliabilitiesInd),
     sellingliabilities |->
         Column(val.sellingliabilities, val.sellingliabilitiesInd)]

\* TrustFrame::loadLines: the LedgerEntry made of a row
RowToEntry(r) ==
    LET ok == ~r.buyingliabilities.null
    IN  [accountID |-> fromStrKey(r.key.accountid),
         issuer |-> fromStrKey(r.key.issuer),
         assetCode |-> r.key.assetcode, assetType |-> r.assettype,
         balance |-> r.balance, limit |-> r.tlimit, flags |-> r.flags,
         lastModifiedLedgerSeq |-> r.lastmodified,
         extV |-> IF ok THEN 1 ELSE 0,
         buying |-> IF ok THEN r.buyingliabilities.val ELSE 0,
         selling |-> IF ok THEN r.sellingliabilities.val ELSE 0]

\* Whether the entry of key exists once the writes staged so far are taken
\* into account.
LogicallyExists(st, key) ==
    LET k == getKeyFields(key)
    IN  IF k \in DOMAIN st.mItems THEN st.mItems[k] # {}
        ELSE k \in DOMAIN st.trustlines /\ st.trustlines[k] # {}

\* LedgerDelta::EntryModder / EntryDeleter: what the guard of a store call
\* records in the delta when the call returns.
EntryModder(st, key) == IF LogicallyExists(st, key) THEN "mod" ELSE "add"
EntryDeleter(st, key) == "del"

\* TrustFrame::storeAddOrChange(delta, db, accums) on
\* st = [trustlines, mItems, cache]; frame = [entry, mIsIssuer].
TrustStoreAddOrChange(st, frame, ledgerSeq, accums) ==
    LET key == LedgerKeyOf(frame.entry)
        kind == EntryModder(st, key)
        flushed == [st EXCEPT !.cache = flushCachedEntry(@, key)]
        e == touch(frame.entry, ledgerSeq)
        k == getKeyFields(key)
        upd == Upsert(st.trustlines, TrustRow(k, ValOf(e)))
    IN  IF frame.mIsIssuer
        THEN [st |-> flushed, threw |-> FALSE, delta |-> kind, affected |-> 0]
        ELSE IF getKeyFieldsThrows(key)
        THEN [st |-> flushed, threw |-> TRUE, delta |-> "none",
              affected |-> 0]
        ELSE IF accums
        THEN [st |-> [flushed EXCEPT !.mItems = Put(@, k, {ValOf(e)})],
              threw |-> FALSE, delta |-> kind, affected |-> 0]
        ELSE IF upd.affected # 1
        THEN [st |-> flushed, threw |-> TRUE, delta |-> "none",
              affected |-> upd.affected]
        ELSE [st |-> [flushed EXCEPT !.trustlines = upd.table],
              threw |-> FALSE, delta |-> kind, affected |-> upd.affected]

\* TrustFrame::storeDelete(delta, db, key, accums)
TrustStoreDelete(st, key, accums) ==
    LET kind == EntryDeleter(st, key)
        flushed == [st EXCEPT !.cache = flushCachedEntry(@, key)]
        k == getKeyFields(key)
    IN  IF getKeyFieldsThrows(key)
        THEN [st |-> flushed, threw |-> TRUE, delta |-> "none"]
        ELSE IF accums
        THEN [st |-> [flushed EXCEPT !.mItems = Put(@, k, {})],
              threw |-> FALSE, delta |-> kind]
        ELSE [st |-> [flushed EXCEPT !.trustlines = Delete(@, k)],
              threw |-> FALSE, delta |-> kind]

\* trustlinesAccumulator::~trustlinesAccumulator: the staged keys with a
\* value record go to the upsert statement, those without to the delete.
FlushAccumulator(table, items) ==
    LET upserts == {k \in DOMAIN items : items[k] # {}}
        deletes == {k \in DOMAIN items : items[k] = {}}
    IN  [k \in DOMAIN table |->
            IF k \in upserts THEN {TrustRow(k, v) : v \in items[k]}
            ELSE IF k \in deletes THEN {}
            ELSE table[k]]

\* for (auto& it : mItems): the keys of a std::map come in key order.
RECURSIVE InOrder(_)
InOrder(S) ==
    IF S = {} THEN <<>>
    ELSE LET m == CHOOSE k \in S :
                      \A j \in S :
                          fromStrKey(k.accountid) <= fromStrKey(j.accountid)
         IN  <<m>> \o InOrder(S \ {m})

\* ~trustlinesAccumulator, the loop: the twelve column vectors of the upsert,
\* one element pushed onto each for every staged key with a value record.
UpsertVectors(items) ==
    LET pk == InOrder({k \in DOMAIN items : items[k] # {}})
        val(i) == CHOOSE v \in items[pk[i]] : TRUE
        n == Len(pk)
    IN  [insertUpdateAccountIDs |-> [i \in 1..n |-> pk[i].accountid],
         insertUpdateIssuers |-> [i \in 1..n |-> pk[i].issuer],
         insertUpdateAssetCodes |-> [i \in 1..n |-> pk[i].assetcode],
         assetTypes |-> [i \in 1..n |-> val(i).assettype],
         balances |-> [i \in 1..n |-> val(i).balance],
         limits |-> [i \in 1..n |-> val(i).limit],
         flagses |-> [i \in 1..n |-> val(i).flags],
         lastmodifieds |-> [i \in 1..n |-> val(i).lastmodified],
         buyingliabilitieses |-> [i \in 1..n |-> val(i).buyingliabilities],
         buyingliabilitiesInds |->
             [i \in 1..n |-> val(i).buyingliabilitiesInd],
         sellingliabilitieses |-> [i \in 1..n |-> val(i).sellingliabilities],
         sellingliabilitiesInds |->
             [i \in 1..n |-> val(i).sellingliabilitiesInd]]

\* ~trustlinesAccumulator, the loop: the three column vectors of the delete,
\* one element pushed onto each for every staged key without a value record.
DeleteVectors(items) ==
    LET ak == InOrder({k \in DOMAIN items : items[k] = {}})
        n == Len(ak)
    IN  [deleteAccountIDs |-> [i \in 1..n |-> ak[i].accountid],
         deleteIssuers |-> [i \in 1..n |-> ak[i].issuer],
         deleteAssetCodes |-> [i \in 1..n |-> ak[i].assetcode]]

\* A destructor that executes both statements whatever was staged.
ExecutedStatements_Unguarded(items) ==
    <<[sql |-> "INSERT INTO trustlines", use |-> UpsertVectors(items)],
      [sql |-> "DELETE FROM trustlines", use |-> DeleteVectors(items)]>>

\* The statements the destructor executes, in order: each is prepared and
\* executed inside the test that its first vector is not empty.
ExecutedStatements(items) ==
    LET up == UpsertVectors(items)
        del == DeleteVectors(items)
    IN  (IF Len(up.insertUpdateAccountIDs) > 0
         THEN <<[sql |-> "INSERT INTO trustlines", use |-> up]>>
         ELSE <<>>)
        \o (IF Len(del.deleteAccountIDs) > 0
            THEN <<[sql |-> "DELETE FROM trustlines", use |-> del]>>
            ELSE <<>>)

\* One statement executed on the table: row i is made of element i of
\* every vector bound to the statement.
ExecuteStatement(table, st) ==
    IF st.sql = "INSERT INTO trustlines"
    THEN LET u == st.use
             n == Len(u.insertUpdateAccountIDs)
             keyAt(i) == [accountid |-> u.insertUpdateAccountIDs[i],
                          issuer |-> u.insertUpdateIssuers[i],
                          assetcode |-> u.insertUpdateAssetCodes[i]]
             rowAt(i) ==
                 [key |-> keyAt(i), assettype |-> u.assetTypes[i],
                  balance |-> u.balances[i], tlimit |-> u.limits[i],
                  flags |-> u.flagses[i],
                  lastmodified |-> u.lastmodifieds[i],
                  buyingliabilities |->
                      Column(u.buyingliabilitieses[i],
                             u.buyingliabilitiesInds[i]),
                  sellingliabilities |->
                      Column(u.sellingliabilitieses[i],
                             u.sellingliabilitiesInds[i])]
         IN  [k \in DOMAIN table |->
                 IF \E i \in 1..n : keyAt(i) = k
                 THEN {rowAt(i) : i \in {j \in 1..n : keyAt(j) = k}}
                 ELSE table[k]]
    ELSE LET d == st.use
             n == Len(d.deleteAccountIDs)
             keyAt(i) == [accountid |-> d.deleteAccountIDs[i],
                          issuer |-> d.deleteIssuers[i],
                          assetcode |-> d.deleteAssetCodes[i]]
         IN  [k \in DOMAIN table |->
                 IF \E i \in 1..n : keyAt(i) = k THEN {} ELSE table[k]]

RECURSIVE ExecuteAll(_, _, _)
ExecuteAll(table, stmts, i) ==
    IF i > Len(stmts) THEN table
    ELSE ExecuteAll(ExecuteStatement(table, stmts[i]), stmts, i + 1)

\* The entry of the frame TrustFrame::createIssuerFrame makes for key.
IssuerEntry(key) ==
    [accountID |-> key.issuer, issuer |-> key.issuer,
     assetCode |-> key.assetCode, assetType |-> 1,
     balance |-> INT64_MAX, limit |-> INT64_MAX, flags |-> AUTHORIZED_FLAG,
     lastModifiedLedgerSeq |-> 0, extV |-> 0, buying |-> 0, selling |-> 0]

\* A loadTrustLine that treats the issuer's account as any other.
loadTrustLine_NoIssuerCheck(st, key) ==
    LET k == getKeyFields(key)
        retLine == {RowToEntry(r) : r \in st.trustlines[k]}
    IN  IF cachedEntryExists(st.cache, key) /\ getCachedEntry(st.cache, key) # {}
        THEN [ret |-> getCachedEntry(st.cache, key), cache |-> st.cache,
              queried |-> FALSE, asked |-> TRUE]
        ELSE [ret |-> retLine, cache |-> putCachedEntry(st.cache, key, retLine),
              queried |-> TRUE, asked |-> TRUE]

\* TrustFrame::loadTrustLine(accountID, asset, db): the entry returned
\* (none: no trust line), the cache afterwards, whether trustlines was
\* queried and whether the cache was asked.
loadTrustLine(st, key) ==
    LET k == getKeyFields(key)
        retLine == {RowToEntry(r) : r \in st.trustlines[k]}
    IN  IF key.accountID = key.issuer
        THEN [ret |-> {IssuerEntry(key)}, cache |-> st.cache,
              queried |-> FALSE, asked |-> FALSE]
        ELSE IF /\ cachedEntryExists(st.cache, key)
                /\ getCachedEntry(st.cache, key) # {}
        THEN [ret |-> getCachedEntry(st.cache, key), cache |-> st.cache,
              queried |-> FALSE, asked |-> TRUE]
        ELSE [ret |-> retLine, cache |-> putCachedEntry(st.cache, key, retLine),
              queried |-> TRUE, asked |-> TRUE]

\* How the cache answers for key: "miss" when it does not know the key,
\* "positive" when it holds an entry, "absent" when it holds the null entry.
CacheHit(c, key) ==
    IF ~cachedEntryExists(c, key) THEN "miss"
    ELSE IF getCachedEntry(c, key) # {} THEN "positive"
    ELSE "absent"

\* TrustFrame::exists(db, key): the answer, whether trustlines was queried
\* for it, and whether the call threw.
TrustFrameExists(st, key) ==
    IF cachedEntryExists(st.cache, key) /\ getCachedEntry(st.cache, key) # {}
    THEN [ret |-> TRUE, queried |-> FALSE, threw |-> FALSE]
    ELSE IF getKeyFieldsThrows(key)
    THEN [ret |-> FALSE, queried |-> FALSE, threw |-> TRUE]
    ELSE [ret |-> st.trustlines[getKeyFields(key)] # {}, queried |-> TRUE,
          threw |-> FALSE]

\* DataFrame::exists(db, key): the answer, and whether accountdata was
\* queried for it.
DataFrameExists(table, key) ==
    [ret |-> table[key] # {}, queried |-> TRUE]

(***************************************************************************)
(* The trust line a TrustFrame holds in memory, and its mutators.          *)
(* A frame is [mTrustLine, mIsIssuer]; mTrustLine has flags, balance,      *)
(* limit and the liabilities extension (extV = 0: absent).                 *)
(***************************************************************************)
\* stellar::addBalance(balance, delta, maxBalance): balance is updated only
\* when balance + delta stays within [0, maxBalance].
stellar_addBalance(balance, amount, maxBalance) ==
    IF amount = 0 THEN [ok |-> TRUE, balance |-> balance]
    ELSE IF balance + amount < 0 \/ balance + amount > maxBalance
    THEN [ok |-> FALSE, balance |-> balance]
    ELSE [ok |-> TRUE, balance |-> balance + amount]

\* getBuyingLiabilities / getSellingLiabilities(TrustLineEntry const&, lm)
getBuyingLiabilities(tl) == IF tl.extV = 0 THEN 0 ELSE tl.buying
getSellingLiabilities(tl) == IF tl.extV = 0 THEN 0 ELSE tl.selling

\* TrustFrame::isAuthorized
isAuthorized(tl) == (tl.flags \div AUTHORIZED_FLAG) % 2 = 1

\* A setAuthorized that clears every flag when it revokes.
setAuthorized_ClearsFlags(f, authorized) ==
    IF authorized
    THEN IF isAuthorized(f.mTrustLine) THEN f
         ELSE [f EXCEPT !.mTrustLine.flags = @ + AUTHORIZED_FLAG]
    ELSE [f EXCEPT !.mTrustLine.flags = 0]

\* TrustFrame::setAuthorized
setAuthorized(f, authorized) ==
    IF authorized
    THEN IF isAuthorized(f.mTrustLine) THEN f
         ELSE [f EXCEPT !.mTrustLine.flags = @ + AUTHORIZED_FLAG]
    ELSE IF isAuthorized(f.mTrustLine)
         THEN [f EXCEPT !.mTrustLine.flags = @ - AUTHORIZED_FLAG]
         ELSE f

\* An addBalance that reports success without storing the new balance.
addBalance_KeepsBalance(f, amount, version) ==
    LET tl == f.mTrustLine
        r == stellar_addBalance(tl.balance, amount, tl.limit)
    IN  IF f.mIsIssuer \/ amount = 0 THEN [res |-> TRUE, frame |-> f]
        ELSE IF ~isAuthorized(tl) \/ ~r.ok THEN [res |-> FALSE, frame |-> f]
        ELSE IF /\ version >= LiabilitiesVersion
                /\ \/ r.balance < getSellingLiabilities(tl)
                   \/ r.balance > tl.limit - getBuyingLiabilities(tl)
        THEN [res |-> FALSE, frame |-> f]
        ELSE [res |-> TRUE, frame |-> f]

\* An addBalance that looks at the limit only, whatever the ledger version.
addBalance_IgnoresLiabilities(f, amount, version) ==
    LET tl == f.mTrustLine
        r == stellar_addBalance(tl.balance, amount, tl.limit)
    IN  IF f.mIsIssuer \/ amount = 0 THEN [res |-> TRUE, frame |-> f]
        ELSE IF ~isAuthorized(tl) \/ ~r.ok THEN [res |-> FALSE, frame |-> f]
        ELSE [res |-> TRUE,
              frame |-> [f EXCEPT !.mTrustLine.balance = r.balance]]

\* TrustFrame::addBalance(delta, lm): the result and the frame afterwards
addBalance(f, amount, version) ==
    LET tl == f.mTrustLine
        r == stellar_addBalance(tl.balance, amount, tl.limit)
        newBalance == r.balance
    IN  IF f.mIsIssuer \/ amount = 0 THEN [res |-> TRUE, frame |-> f]
        ELSE IF ~isAuthorized(tl) THEN [res |-> FALSE, frame |-> f]
        ELSE IF ~r.ok THEN [res |-> FALSE, frame |-> f]
        ELSE IF version >= LiabilitiesVersion
                /\ (\/ newBalance < getSellingLiabilities(tl)
                    \/ newBalance > tl.limit - getBuyingLiabilities(tl))
        THEN [res |-> FALSE, frame |-> f]
        ELSE [res |-> TRUE,
              frame |-> [f EXCEPT !.mTrustLine.balance = newBalance]]

\* An extension that is filled in but never switched on.
WithExtension_Unset(tl) ==
    IF tl.extV = 0 THEN [tl EXCEPT !.buying = 0, !.selling = 0] ELSE tl

\* The extension as it is once a liability is to be written: created with
\* both liabilities zero when it was absent.
WithExtension(tl) ==
    IF tl.extV = 0 THEN [tl EXCEPT !.extV = 1, !.buying = 0, !.selling = 0]
    ELSE tl

\* An addBuyingLiabilities bounded by the limit, not by the room under it.
addBuyingLiabilities_AgainstLimit(f, amount) ==
    LET tl == f.mTrustLine
        buyingLiab == IF tl.extV = 0 THEN 0 ELSE tl.buying
        r == stellar_addBalance(buyingLiab, amount, tl.limit)
    IN  IF f.mIsIssuer \/ amount = 0 THEN [res |-> TRUE, frame |-> f]
        ELSE IF ~isAuthorized(tl) THEN [res |-> FALSE, frame |-> f]
        ELSE IF r.ok
        THEN [res |-> TRUE,
              frame |-> [f EXCEPT !.mTrustLine =
                            [WithExtension(tl) EXCEPT !.buying = r.balance]]]
        ELSE [res |-> FALSE, frame |-> f]

\* TrustFrame::addBuyingLiabilities(delta, lm)
addBuyingLiabilities(f, amount) ==
    LET tl == f.mTrustLine
        buyingLiab == IF tl.extV = 0 THEN 0 ELSE tl.buying
        maxLiabilities == tl.limit - tl.balance
        r == stellar_addBalance(buyingLiab, amount, maxLiabilities)
    IN  IF f.mIsIssuer \/ amount = 0 THEN [res |-> TRUE, frame |-> f]
        ELSE IF ~isAuthorized(tl) THEN [res |-> FALSE, frame |-> f]
        ELSE IF r.ok
        THEN [res |-> TRUE,
              frame |-> [f EXCEPT !.mTrustLine =
                            [WithExtension(tl) EXCEPT !.buying = r.balance]]]
        ELSE [res |-> FALSE, frame |-> f]

\* An addSellingLiabilities without the early return for the issuer.
addSellingLiabilities_NoIssuerGuard(f, amount) ==
    LET tl == f.mTrustLine
        sellingLiab == IF tl.extV = 0 THEN 0 ELSE tl.selling
        r == stellar_addBalance(sellingLiab, amount, tl.balance)
    IN  IF amount = 0 THEN [res |-> TRUE, frame |-> f]
        ELSE IF ~isAuthorized(tl) THEN [res |-> FALSE, frame |-> f]
        ELSE IF r.ok
        THEN [res |-> TRUE,
              frame |-> [f EXCEPT !.mTrustLine =
                            [WithExtension(tl) EXCEPT !.selling = r.balance]]]
        ELSE [res |-> FALSE, frame |-> f]

\* TrustFrame::addSellingLiabilities(delta, lm)
addSellingLiabilities(f, amount) ==
    LET tl == f.mTrustLine
        sellingLiab == IF tl.extV = 0 THEN 0 ELSE tl.selling
        maxLiabilities == tl.balance
        r == stellar_addBalance(sellingLiab, amount, maxLiabilities)
    IN  IF f.mIsIssuer \/ amount = 0 THEN [res |-> TRUE, frame |-> f]
        ELSE IF ~isAuthorized(tl) THEN [res |-> FALSE, frame |-> f]
        ELSE IF r.ok
        THEN [res |-> TRUE,
              frame |-> [f EXCEPT !.mTrustLine =
                            [WithExtension(tl) EXCEPT !.selling = r.balance]]]
        ELSE [res |-> FALSE, frame |-> f]

\* An available balance that is the whole balance at every version.
getAvailableBalance_IgnoresLiabilities(f, version) == f.mTrustLine.balance

\* TrustFrame::getAvailableBalance(lm)
getAvailableBalance(f, version) ==
    IF version >= LiabilitiesVersion
    THEN f.mTrustLine.balance - getSellingLiabilities(f.mTrustLine)
    ELSE f.mTrustLine.balance

\* TrustFrame::getMinimumLimit(lm)
getMinimumLimit(f, version) ==
    IF version >= LiabilitiesVersion
    THEN f.mTrustLine.balance + getBuyingLiabilities(f.mTrustLine)
    ELSE f.mTrustLine.balance

\* A getMaxAmountReceive that does not look at the authorization.
getMaxAmountReceive_IgnoresAuthorization(f, version) ==
    IF f.mIsIssuer THEN INT64_MAX
    ELSE IF version >= LiabilitiesVersion
    THEN f.mTrustLine.limit - f.mTrustLine.balance
            - getBuyingLiabilities(f.mTrustLine)
    ELSE f.mTrustLine.limit - f.mTrustLine.balance

\* TrustFrame::getMaxAmountReceive(lm)
getMaxAmountReceive(f, version) ==
    IF f.mIsIssuer THEN INT64_MAX
    ELSE IF isAuthorized(f.mTrustLine)
    THEN IF version >= LiabilitiesVersion
         THEN f.mTrustLine.limit - f.mTrustLine.balance
                 - getBuyingLiabilities(f.mTrustLine)
         ELSE f.mTrustLine.limit - f.mTrustLine.balance
    ELSE 0

\* TrustFrame::createIssuerFrame
createIssuerFrame ==
    [mTrustLine |-> [flags |-> AUTHORIZED_FLAG, balance |-> INT64_MAX,
                     limit |-> INT64_MAX, extV |-> 0, buying |-> 0,
                     selling |-> 0],
     mIsIssuer |-> TRUE]

\* The trust lines of the ledger: 0 <= balance <= limit, limit > 0, and the
\* liabilities within the balance and the room left under the limit.
ValidLine(tl) ==
    /\ 0 <= tl.balance /\ tl.balance <= tl.limit
    /\ 0 <= getSellingLiabilities(tl)
    /\ getSellingLiabilities(tl) <= tl.balance
    /\ 0 <= getBuyingLiabilities(tl)
    /\ tl.balance + getBuyingLiabilities(tl) <= tl.limit

TrustLines ==
    {tl \in [flags : 0..MaxFlags, balance : 0..MaxAmount, limit : 1..MaxAmount,
             extV : 0..1, buying : 0..MaxAmount, selling : 0..MaxAmount] :
        /\ ValidLine(tl)
        /\ tl.extV = 0 => (tl.buying = 0 /\ tl.selling = 0)}

Deltas == (0 - MaxDelta)..MaxDelta

NoCall(f) ==
    [op |-> "none", delta |-> 0, authorized |-> FALSE, res |-> TRUE,
     pre |-> f.mTrustLine, value |-> 0]

CallRecord(op, amount, authorized, res) ==
    [op |-> op, delta |-> amount, authorized |-> authorized, res |-> res,
     pre |-> trustFrame.mTrustLine, value |-> 0]

\* The record of a call that returns an amount.
AmountRecord(op, value) ==
    [op |-> op, delta |-> 0, authorized |-> FALSE, res |-> TRUE,
     pre |-> trustFrame.mTrustLine, value |-> value]

IdleFrame ==
    /\ trustFrame = createIssuerFrame
    /\ ledgerVersion = LiabilitiesVersion
    /\ lastCall = NoCall(createIssuerFrame)

(***************************************************************************)
(* The bucket.  A bucket is key-ordered and deduplicated: entry i carries  *)
(* key i.  Its shape says which entries are dead.                          *)
(***************************************************************************)
BucketLens ==
    {n \in 0..MaxBucketLen :
        \/ n % (ChunkMask + 1) \in {0, 1, ChunkMask}
        \/ n = MaxBucketLen}

IsDead(b, i) == b.shape > 0 /\ i % (b.shape + 1) = b.shape

BucketAt(b, i) ==
    [type |-> IF IsDead(b, i) THEN "DEADENTRY" ELSE "LIVEENTRY",
     key |-> i,
     dataValue |-> 1 + (i % NumValues),
     lastModifiedLedgerSeq |-> 1 + (i % 2)]

\* The rows accountdata holds before the applicator is constructed.
InitialTable(len, seed) ==
    [k \in 0..(len - 1) |->
        IF seed > 0 /\ k % seed = 0
        THEN {[key |-> k, datavalue |-> encode_b64(0), lastmodified |-> 0]}
        ELSE {}]

EmptyTable(len) == [k \in 0..(len - 1) |-> {}]

\* What accountdata_bulk can hold before the applicator is constructed:
\* nothing, or, when batches are merged, the rows an earlier applicator
\* staged and merged into accountdata; no statement removes them.
StagedBefore(len, seed, blk) ==
    {EmptyTable(len)} \cup (IF blk THEN {InitialTable(len, seed)} ELSE {})

Tables == [accountdata |-> accountdata, accountdata_bulk |-> accountdata_bulk]

(***************************************************************************)
(* BucketApplicator                                                        *)
(***************************************************************************)
\* BucketApplicator::operator bool
HasMore(b, iter) == iter < b.len

\* An iterator that steps over an entry.
NextIter_Skips(iter) == iter + 2

\* ++mBucketIter
NextIter(iter) == iter + 1

\* (++mSize & 0xff) == 0xff
ChunkBreak(size) == (size % (ChunkMask + 1)) = ChunkMask

\* One pass of the loop of advance() on the loop state
\* st = [iter, size, tabs, trace, threw, stop]; the write of entry failAt
\* throws.  Once the loop has been left a pass changes nothing.
ApplyEntry(b, st, blk, failAt) ==
    LET entry == BucketAt(b, st.iter)
        r == IF entry.type = "LIVEENTRY"
             THEN DataStoreAddOrChange(st.tabs,
                      [key |-> entry.key, dataValue |-> entry.dataValue,
                       lastModifiedLedgerSeq |-> entry.lastModifiedLedgerSeq],
                      BucketLedgerSeq, 0, blk)
             ELSE DataStoreDelete(st.tabs, entry.key)
    IN  IF st.stop THEN st
        ELSE IF ~HasMore(b, st.iter) THEN [st EXCEPT !.stop = TRUE]
        ELSE IF st.iter = failAt \/ r.threw
        THEN [st EXCEPT !.threw = TRUE, !.stop = TRUE]
        ELSE [st EXCEPT !.tabs = r.tabs,
                        !.trace = Append(@, st.iter),
                        !.iter = NextIter(@),
                        !.size = @ + 1,
                        !.stop = ChunkBreak(st.size + 1)]

\* n passes of the loop, in order.
RECURSIVE Passes(_, _, _, _, _)
Passes(b, st, blk, failAt, n) ==
    IF n = 0 THEN st
    ELSE IF n = 1 THEN ApplyEntry(b, st, blk, failAt)
    ELSE LET first == Passes(b, st, blk, failAt, n \div 2)
         IN  IF first.stop THEN first
             ELSE Passes(b, first, blk, failAt, n - (n \div 2))

\* The while loop of advance(): it is left after at most ChunkMask + 1 passes.
AdvanceLoop(b, st, blk, failAt) == Passes(b, st, blk, failAt, ChunkMask + 1)

\* accumulator::~accumulator: merge when the accumulator holds a database
Flush(tabs, blk) == IF blk THEN mergeAccumulated(tabs) ELSE tabs

\* soci::transaction: what the tables hold once the scope of sqlTx is left
Committed(snapshot, work) == work
RolledBack(snapshot, work) == snapshot

BeginTx == -1
CommitTx == -2

LoopStart ==
    [iter |-> mBucketIter, size |-> mSize, tabs |-> Tables,
     trace |-> Append(trace, BeginTx), threw |-> FALSE, stop |-> FALSE]

\* The entries the next advance() would reach if nothing failed.
Reach == LET n == ChunkMask - (mSize % (ChunkMask + 1))
         IN  Min(bucket.len, mBucketIter + (IF n = 0 THEN ChunkMask + 1 ELSE n))

Alive == outcome # "terminated" /\ adv_calls < MaxCalls

\* advance() with every statement succeeding
Advance ==
    /\ Alive
    /\ LET st == AdvanceLoop(bucket, LoopStart, bulk, -1)
           work == Flush(st.tabs, bulk)
           done == Committed(Tables, work)
       IN  /\ accountdata' = done.accountdata
           /\ accountdata_bulk' = done.accountdata_bulk
           /\ mBucketIter' = st.iter
           /\ mSize' = st.size
           /\ trace' = Append(st.trace, CommitTx)
    /\ txBegin' = Tables
    /\ iterBegin' = mBucketIter
    /\ adv_calls' = adv_calls + 1
    /\ outcome' = "ok"
    /\ UNCHANGED <<bulk, bucket, faults, initStore, failedAt, trustVars,
                   storeVars, equivVars,
                   readVars, frameVars, flushVars>>

\* advance() where the write of one entry of the chunk throws: the stack is
\* unwound through ~accumulator and ~transaction, and the exception leaves
\* advance().
AdvanceWriteFails ==
    /\ Alive
    /\ faults < MaxFaults
    /\ \E f \in {mBucketIter, mBucketIter + 1, Reach - 1} :
        /\ mBucketIter <= f /\ f < Reach
        /\ LET st == AdvanceLoop(bucket, LoopStart, bulk, f)
               work == Flush(st.tabs, bulk)
               done == RolledBack(Tables, work)
           IN  /\ accountdata' = done.accountdata
               /\ accountdata_bulk' = done.accountdata_bulk
               /\ mBucketIter' = st.iter
               /\ mSize' = st.size
               /\ trace' = st.trace
               /\ failedAt' = f
    /\ txBegin' = Tables
    /\ iterBegin' = mBucketIter
    /\ faults' = faults + 1
    /\ outcome' = "threw"
    /\ UNCHANGED <<bulk, bucket, adv_calls, initStore, trustVars, storeVars,
                   equivVars,
                   readVars, frameVars, flushVars>>

\* advance() where a statement of the merge throws.  The exception leaves
\* ~accumulator, a destructor, so std::terminate ends the process; the open
\* transaction is never committed.
AdvanceFlushFails ==
    /\ Alive
    /\ faults < MaxFaults
    /\ bulk
    /\ LET st == AdvanceLoop(bucket, LoopStart, bulk, -1)
           done == RolledBack(Tables, st.tabs)
       IN  /\ accountdata' = done.accountdata
           /\ accountdata_bulk' = done.accountdata_bulk
           /\ mBucketIter' = st.iter
           /\ mSize' = st.size
           /\ trace' = st.trace
    /\ txBegin' = Tables
    /\ iterBegin' = mBucketIter
    /\ faults' = faults + 1
    /\ outcome' = "terminated"
    /\ UNCHANGED <<bulk, bucket, adv_calls, initStore, failedAt, trustVars,
                   storeVars, equivVars,
                   readVars, frameVars, flushVars>>

(***************************************************************************)
(* The store operations of one entry type, called one at a time.           *)
(***************************************************************************)
Values == 1..NumValues
DataKeys == 0..(NumDataKeys - 1)
TrustKeys ==
    {[accountID |-> a, issuer |-> 0, assetCode |-> "USD"] :
        a \in 1..NumTrustKeys}

\* The frames handed to the store calls: value v stands for one payload.
DataFrameOf(k, v) ==
    [key |-> k, dataValue |-> v, lastModifiedLedgerSeq |-> 1 + (v % 2)]
TrustFrameOf(key, v) ==
    [entry |-> [accountID |-> key.accountID, issuer |-> key.issuer,
                assetCode |-> key.assetCode, assetType |-> 1,
                balance |-> v, limit |-> NumValues, flags |-> 1,
                lastModifiedLedgerSeq |-> 1 + (v % 2),
                extV |-> v % 2,
                buying |-> IF v % 2 = 1 THEN v ELSE 0,
                selling |-> 0],
     mIsIssuer |-> FALSE]

TrustState == [trustlines |-> trustlines, mItems |-> mItems, cache |-> cache]

NoOp(type) ==
    [op |-> "none",
     key |-> IF type = "DATA" THEN 0 ELSE CHOOSE k \in TrustKeys : TRUE,
     post |-> {}, staged |-> FALSE, ok |-> TRUE, existed |-> FALSE,
     again |-> FALSE, tick |-> 0, affected |-> 0]

\* The record kept of a store call: op on key, the entries post a reader
\* is to find afterwards, whether the write was staged, whether the call
\* returned normally, whether key had a primary row when it was made, and
\* whether it repeats the write before it (same key, same path) with
\* another payload; affected is the row count the write statement of a
\* storeAddOrChange reported (0 when the call executed none).
OpRecord(op, key, post, staged, threw, existed, affected) ==
    [op |-> op, key |-> key,
     post |-> IF threw THEN {} ELSE post,
     staged |-> staged /\ ~threw,
     ok |-> ~threw,
     existed |-> existed,
     again |-> /\ op = "addOrChange" /\ ~threw
               /\ lastOp.op = "addOrChange" /\ lastOp.ok
               /\ lastOp.key = key /\ lastOp.post # post
               /\ lastOp.staged = staged,
     tick |-> 1 - lastOp.tick,
     affected |-> affected]

IdleBucket ==
    /\ bucket = [len |-> 0, shape |-> 0]
    /\ initStore = 0
    /\ mBucketIter = 0
    /\ mSize = 0
    /\ adv_calls = 0
    /\ outcome = "none"
    /\ txBegin = [accountdata |-> EmptyTable(0),
                  accountdata_bulk |-> EmptyTable(0)]
    /\ iterBegin = 0
    /\ failedAt = -1
    /\ trace = <<>>
    /\ faults = 0

IdleStore ==
    /\ trustlines = EmptyMap
    /\ mItems = EmptyMap
    /\ cache = EmptyMap
    /\ delta = EmptyDelta
    /\ entryType = "DATA"
    /\ lastOp = NoOp("DATA")
    /\ headerLedgerSeq = BucketLedgerSeq

IdleEquiv ==
    /\ equivIn = [type |-> "DATA", ops |-> <<>>, init |-> EmptyMap]
    /\ equivOut = [done |-> FALSE]

IdleData ==
    /\ accountdata = EmptyTable(0)
    /\ accountdata_bulk = EmptyTable(0)
    /\ bulk = FALSE

\* The last read since the last write: the call, its key, how the cache
\* answered when it was made, whether storage was queried, and the answer.
NoRead ==
    [op |-> "none", key |-> 0, hit |-> "miss", queried |-> FALSE,
     found |-> FALSE]
ReadRecord(op, key, hit, queried, found) ==
    [op |-> op, key |-> key.accountID, hit |-> hit, queried |-> queried,
     found |-> found]

IdleRead == lastRead = NoRead

IdleFlush ==
    /\ flushIn = [items |-> EmptyMap, table |-> EmptyMap]
    /\ flushOut = [done |-> FALSE]

\* DataFrame::storeAddOrChange for some key, payload and mode; bulk is passed
\* as set while a batch is open.
DataAddOrChange ==
    /\ entryType = "DATA"
    /\ \E k \in DataKeys, v \in Values, mode \in 0..2 :
         LET frame == DataFrameOf(k, v)
             r == DataStoreAddOrChange(Tables, frame, headerLedgerSeq, mode,
                                       bulk)
         IN  /\ accountdata' = r.tabs.accountdata
             /\ accountdata_bulk' = r.tabs.accountdata_bulk
             /\ delta' = Record(EmptyDelta, r.delta, k)
             /\ lastOp' = OpRecord("addOrChange", k,
                                    {touch(frame, headerLedgerSeq)},
                                    mode = 0 /\ bulk, r.threw,
                                    accountdata[k] # {}, r.affected)
    /\ lastRead' = NoRead
    /\ UNCHANGED <<bulk, bucketVars, trustVars, entryType, headerLedgerSeq,
                   equivVars,
                   frameVars, flushVars>>

\* DataFrame::storeDelete for some key
DataDelete ==
    /\ entryType = "DATA"
    /\ \E k \in DataKeys :
         LET r == DataStoreDelete(Tables, k)
         IN  /\ accountdata' = r.tabs.accountdata
             /\ accountdata_bulk' = r.tabs.accountdata_bulk
             /\ delta' = Record(EmptyDelta, r.delta, k)
             /\ lastOp' = OpRecord("delete", k, {}, FALSE, r.threw,
                                    accountdata[k] # {}, 0)
    /\ lastRead' = NoRead
    /\ UNCHANGED <<bulk, bucketVars, trustVars, entryType, headerLedgerSeq,
                   equivVars,
                   frameVars, flushVars>>

\* accumulator::accumulator: a batch of Data writes is opened
DataBeginBulk ==
    /\ entryType = "DATA"
    /\ ~bulk
    /\ bulk' = TRUE
    /\ UNCHANGED <<dataVars, bucketVars, trustVars, storeVars, equivVars,
                   readVars, frameVars, flushVars>>

\* accumulator::~accumulator: the batch is merged into accountdata
DataMerge ==
    /\ entryType = "DATA"
    /\ bulk
    /\ LET merged == Flush(Tables, bulk)
       IN  /\ accountdata' = merged.accountdata
           /\ accountdata_bulk' = merged.accountdata_bulk
    /\ bulk' = FALSE
    /\ lastRead' = NoRead
    /\ UNCHANGED <<bucketVars, trustVars, storeVars, equivVars,
                   frameVars, flushVars>>

\* TrustFrame::storeAddOrChange for some key and payload; accums is passed
\* while an accumulator exists.
TrustAddOrChange ==
    /\ entryType = "TRUSTLINE"
    /\ \E key \in TrustKeys, v \in Values :
         LET frame == TrustFrameOf(key, v)
             r == TrustStoreAddOrChange(TrustState, frame, headerLedgerSeq,
                                        bulk)
         IN  /\ trustlines' = r.st.trustlines
             /\ mItems' = r.st.mItems
             /\ cache' = r.st.cache
             /\ delta' = Record(EmptyDelta, r.delta, key)
             /\ lastOp' = OpRecord("addOrChange", key,
                                    {touch(frame.entry, headerLedgerSeq)},
                                    bulk, r.threw,
                                    trustlines[getKeyFields(key)] # {},
                                    r.affected)
    /\ lastRead' = NoRead
    /\ UNCHANGED <<bulk, bucketVars, dataVars, entryType, headerLedgerSeq,
                   equivVars,
                   frameVars, flushVars>>

\* TrustFrame::storeDelete for some key
TrustDelete ==
    /\ entryType = "TRUSTLINE"
    /\ \E key \in TrustKeys :
         LET r == TrustStoreDelete(TrustState, key, bulk)
         IN  /\ trustlines' = r.st.trustlines
             /\ mItems' = r.st.mItems
             /\ cache' = r.st.cache
             /\ delta' = Record(EmptyDelta, r.delta, key)
             /\ lastOp' = OpRecord("delete", key, {}, bulk, r.threw,
                                    trustlines[getKeyFields(key)] # {}, 0)
    /\ lastRead' = NoRead
    /\ UNCHANGED <<bulk, bucketVars, dataVars, entryType, headerLedgerSeq,
                   equivVars,
                   frameVars, flushVars>>

\* TrustFrame::loadTrustLine for some key
LoadTrustLine ==
    /\ entryType = "TRUSTLINE"
    /\ \E key \in TrustKeys :
         LET r == loadTrustLine(TrustState, key)
         IN  /\ cache' = r.cache
             /\ lastRead' = ReadRecord("load", key, CacheHit(cache, key),
                                       r.queried, r.ret # {})
    /\ UNCHANGED <<bulk, trustlines, mItems, bucketVars, dataVars, storeVars,
                   equivVars, frameVars, flushVars>>

\* TrustFrame::exists for some key
TrustExists ==
    /\ entryType = "TRUSTLINE"
    /\ \E key \in TrustKeys :
         LET r == TrustFrameExists(TrustState, key)
         IN  lastRead' = ReadRecord("exists", key, CacheHit(cache, key),
                                    r.queried, r.ret)
    /\ UNCHANGED <<bulk, trustVars, bucketVars, dataVars, storeVars,
                   equivVars, frameVars, flushVars>>

\* DataFrame::exists for some key
DataExists ==
    /\ entryType = "DATA"
    /\ \E k \in DataKeys :
         LET r == DataFrameExists(accountdata, k)
         IN  lastRead' = [op |-> "exists", key |-> k,
                          hit |-> "miss", queried |-> r.queried,
                          found |-> r.ret]
    /\ UNCHANGED <<bulk, trustVars, bucketVars, dataVars, storeVars,
                   equivVars, frameVars, flushVars>>

\* TrustFrame::createAccumulator
CreateAccumulator ==
    /\ entryType = "TRUSTLINE"
    /\ ~bulk
    /\ bulk' = TRUE
    /\ mItems' = EmptyMap
    /\ UNCHANGED <<trustlines, cache, bucketVars, dataVars, storeVars,
                   equivVars,
                   readVars, frameVars, flushVars>>

\* The accumulator goes out of scope: ~trustlinesAccumulator
DestroyAccumulator ==
    /\ entryType = "TRUSTLINE"
    /\ bulk
    /\ trustlines' = FlushAccumulator(trustlines, mItems)
    /\ mItems' = EmptyMap
    /\ bulk' = FALSE
    /\ lastRead' = NoRead
    /\ UNCHANGED <<cache, bucketVars, dataVars, storeVars, equivVars,
                   frameVars, flushVars>>

InitStore ==
    /\ entryType \in {"DATA", "TRUSTLINE"}
    /\ accountdata = [k \in DataKeys |-> {}]
    /\ accountdata_bulk = [k \in DataKeys |-> {}]
    /\ trustlines = [k \in {getKeyFields(key) : key \in TrustKeys} |-> {}]
    /\ mItems = EmptyMap
    /\ cache = EmptyMap
    /\ bulk = FALSE
    /\ delta = EmptyDelta
    /\ lastOp = NoOp(entryType)
    /\ headerLedgerSeq = BucketLedgerSeq
    /\ lastRead = NoRead
    /\ IdleBucket
    /\ IdleEquiv
    /\ IdleFrame
    /\ IdleFlush

NextStore ==
    \/ DataAddOrChange
    \/ DataDelete
    \/ DataBeginBulk
    \/ DataMerge
    \/ TrustAddOrChange
    \/ TrustDelete
    \/ LoadTrustLine
    \/ TrustExists
    \/ DataExists
    \/ CreateAccumulator
    \/ DestroyAccumulator

SpecStore == InitStore /\ [][NextStore]_vars

(***************************************************************************)
(* The store calls under a LedgerDelta that tracks any ledger header.      *)
(***************************************************************************)
\* LedgerDelta::getHeader().ledgerSeq: 0 for a bucket import, the sequence
\* of the ledger being closed otherwise.
LedgerSeqs == 0..MaxLedgerSeq

InitTouch ==
    /\ entryType \in {"DATA", "TRUSTLINE"}
    /\ headerLedgerSeq \in LedgerSeqs
    /\ accountdata = [k \in DataKeys |-> {}]
    /\ accountdata_bulk = [k \in DataKeys |-> {}]
    /\ trustlines = [k \in {getKeyFields(key) : key \in TrustKeys} |-> {}]
    /\ mItems = EmptyMap
    /\ cache = EmptyMap
    /\ bulk = FALSE
    /\ delta = EmptyDelta
    /\ lastOp = NoOp(entryType)
    /\ lastRead = NoRead
    /\ IdleBucket
    /\ IdleEquiv
    /\ IdleFrame
    /\ IdleFlush

NextTouch ==
    \/ DataAddOrChange
    \/ DataBeginBulk
    \/ DataMerge
    \/ TrustAddOrChange
    \/ CreateAccumulator
    \/ DestroyAccumulator

SpecTouch == InitTouch /\ [][NextTouch]_vars

(***************************************************************************)
(* Deleting what a ledger and its successors modified.                     *)
(***************************************************************************)
\* LedgerEntry::data.type(): a Data entry carries a dataValue.
EntryTypeOf(le) == IF "dataValue" \in DOMAIN le THEN "DATA" ELSE "TRUSTLINE"

\* cache::erase_if(pred): the cache without the keys whose entry satisfies
\* pred, which is given as the set of the entries it accepts; an entry is
\* the empty set (null) or a set of one LedgerEntry.
erase_if(c, pred) == [x \in {k \in DOMAIN c : c[k] \notin pred} |-> c[x]]

\* The predicate both delete...ModifiedOnOrAfterLedger hand to erase_if:
\* le && le->data.type() == type && le->lastModifiedLedgerSeq >= oldestLedger
ModifiedOnOrAfter(c, type, oldestLedger) ==
    {le \in {c[k] : k \in DOMAIN c} :
        \E e \in le : /\ EntryTypeOf(e) = type
                      /\ e.lastModifiedLedgerSeq >= oldestLedger}

\* DELETE FROM table WHERE lastmodified >= :v1
DeleteModifiedOnOrAfter(table, oldestLedger) ==
    [k \in DOMAIN table |-> {r \in table[k] : r.lastmodified < oldestLedger}]

\* TrustFrame::deleteTrustLinesModifiedOnOrAfterLedger(db, oldestLedger)
deleteTrustLinesModifiedOnOrAfterLedger(st, oldestLedger) ==
    [st EXCEPT
       !.cache = erase_if(@, ModifiedOnOrAfter(@, "TRUSTLINE", oldestLedger)),
       !.trustlines = DeleteModifiedOnOrAfter(@, oldestLedger)]

\* DataFrame::deleteDataModifiedOnOrAfterLedger(db, oldestLedger): the
\* tables and the cache afterwards
deleteDataModifiedOnOrAfterLedger(tabs, c, oldestLedger) ==
    [tabs |-> [tabs EXCEPT
                 !.accountdata = DeleteModifiedOnOrAfter(@, oldestLedger)],
     cache |-> erase_if(c, ModifiedOnOrAfter(c, "DATA", oldestLedger))]

\* The record kept of a delete...ModifiedOnOrAfterLedger(oldestLedger) call.
RewindRecord(op, oldestLedger) ==
    [op |-> op, key |-> lastOp.key, post |-> {}, staged |-> FALSE,
     ok |-> TRUE, existed |-> FALSE, again |-> FALSE,
     tick |-> 1 - lastOp.tick, affected |-> 0,
     oldestLedger |-> oldestLedger]

\* TrustFrame::deleteTrustLinesModifiedOnOrAfterLedger for some ledger
DeleteTrustLinesModifiedOnOrAfterLedger ==
    /\ \E oldestLedger \in LedgerSeqs :
         LET st == deleteTrustLinesModifiedOnOrAfterLedger(TrustState,
                                                           oldestLedger)
         IN  /\ trustlines' = st.trustlines
             /\ cache' = st.cache
             /\ lastOp' = RewindRecord(
                             "deleteTrustLinesModifiedOnOrAfterLedger",
                             oldestLedger)
    /\ lastRead' = NoRead
    /\ UNCHANGED <<bulk, mItems, delta, entryType, headerLedgerSeq,
                   bucketVars, dataVars, equivVars, frameVars, flushVars>>

\* DataFrame::deleteDataModifiedOnOrAfterLedger for some ledger
DeleteDataModifiedOnOrAfterLedger ==
    /\ \E oldestLedger \in LedgerSeqs :
         LET r == deleteDataModifiedOnOrAfterLedger(Tables, cache,
                                                    oldestLedger)
         IN  /\ accountdata' = r.tabs.accountdata
             /\ accountdata_bulk' = r.tabs.accountdata_bulk
             /\ cache' = r.cache
             /\ lastOp' = RewindRecord("deleteDataModifiedOnOrAfterLedger",
                                       oldestLedger)
    /\ lastRead' = NoRead
    /\ UNCHANGED <<bulk, trustlines, mItems, delta, entryType,
                   headerLedgerSeq, bucketVars, equivVars, frameVars,
                   flushVars>>

\* Trust lines and Data entries written, read and deleted by ledger.
NextRewind ==
    \/ DataAddOrChange
    \/ DataBeginBulk
    \/ DataMerge
    \/ TrustAddOrChange
    \/ LoadTrustLine
    \/ CreateAccumulator
    \/ DestroyAccumulator
    \/ DeleteTrustLinesModifiedOnOrAfterLedger
    \/ DeleteDataModifiedOnOrAfterLedger

SpecRewind == InitStore /\ [][NextRewind]_vars

(***************************************************************************)
(* One run of live / dead entries applied on the direct path and on the    *)
(* accumulator path, from the same first rows.                             *)
(***************************************************************************)
KeysOf(type) == IF type = "DATA" THEN DataKeys ELSE TrustKeys

\* The entries a run is made of: live with a payload, or dead.
EquivEntries(type) ==
    {e \in [live : BOOLEAN, key : KeysOf(type), v : Values] :
        e.live \/ e.v = 1}

EquivRuns(type) ==
    UNION {[1..n -> EquivEntries(type)] : n \in 0..MaxSeqLen}

\* The first rows: for every key a payload, or 0 for no row.
EquivStores(type) == [KeysOf(type) -> 0..NumValues]

EquivInputs ==
    UNION {[type : {type}, ops : EquivRuns(type), init : EquivStores(type)] :
              type \in {"DATA", "TRUSTLINE"}}

DataTableOf(init) ==
    [k \in DataKeys |->
        IF init[k] = 0 THEN {} ELSE {DataRow(DataFrameOf(k, init[k]))}]

TrustTableOf(init) ==
    [kf \in {getKeyFields(key) : key \in TrustKeys} |->
        UNION {IF init[key] = 0 THEN {}
               ELSE {TrustRow(kf, ValOf(TrustFrameOf(key, init[key]).entry))} :
                  key \in {x \in TrustKeys : getKeyFields(x) = kf}}]

\* Entries i.. of the run applied to st = [tabs, delta]; blk: bulk is passed.
RECURSIVE DataRun(_, _, _, _)
DataRun(st, ops, i, blk) ==
    IF i > Len(ops) THEN st
    ELSE LET e == ops[i]
             r == IF e.live
                  THEN DataStoreAddOrChange(st.tabs, DataFrameOf(e.key, e.v),
                                            BucketLedgerSeq, 0, blk)
                  ELSE DataStoreDelete(st.tabs, e.key)
         IN  DataRun([tabs |-> r.tabs,
                      delta |-> Record(st.delta, r.delta, e.key)],
                     ops, i + 1, blk)

\* Entries i.. of the run applied to st = [store, delta]; accums: an
\* accumulator is passed.
RECURSIVE TrustRun(_, _, _, _)
TrustRun(st, ops, i, accums) ==
    IF i > Len(ops) THEN st
    ELSE LET e == ops[i]
             r == IF e.live
                  THEN TrustStoreAddOrChange(st.store,
                           TrustFrameOf(e.key, e.v), BucketLedgerSeq, accums)
                  ELSE TrustStoreDelete(st.store, e.key, accums)
         IN  TrustRun([store |-> r.st,
                       delta |-> Record(st.delta, r.delta, e.key)],
                      ops, i + 1, accums)

\* The primary table and the delta a whole run leaves; the batch is merged
\* or flushed when the run ends.
RunData(init, ops, blk) ==
    LET st == DataRun([tabs |-> [accountdata |-> DataTableOf(init),
                                 accountdata_bulk |-> [k \in DataKeys |-> {}]],
                       delta |-> EmptyDelta], ops, 1, blk)
    IN  [primary |-> Flush(st.tabs, blk).accountdata, delta |-> st.delta]

RunTrust(init, ops, accums) ==
    LET st == TrustRun([store |-> [trustlines |-> TrustTableOf(init),
                                   mItems |-> EmptyMap, cache |-> EmptyMap],
                        delta |-> EmptyDelta], ops, 1, accums)
    IN  [primary |-> IF accums
                     THEN FlushAccumulator(st.store.trustlines,
                                           st.store.mItems)
                     ELSE st.store.trustlines,
         delta |-> st.delta]

Run(in, staged) ==
    IF in.type = "DATA" THEN RunData(in.init, in.ops, staged)
    ELSE RunTrust(in.init, in.ops, staged)

RunBoth ==
    /\ ~equivOut.done
    /\ equivOut' = [done |-> TRUE, direct |-> Run(equivIn, FALSE),
                    accum |-> Run(equivIn, TRUE)]
    /\ UNCHANGED <<equivIn, bulk, dataVars, bucketVars, trustVars, storeVars,
                   readVars, frameVars, flushVars>>

InitEquiv ==
    /\ equivIn \in EquivInputs
    /\ equivOut = [done |-> FALSE]
    /\ accountdata = EmptyTable(0)
    /\ accountdata_bulk = EmptyTable(0)
    /\ bulk = FALSE
    /\ IdleBucket
    /\ IdleStore
    /\ IdleRead
    /\ IdleFrame
    /\ IdleFlush

NextEquiv == RunBoth

SpecEquiv == InitEquiv /\ [][NextEquiv]_vars

(***************************************************************************)
(* A TrustFrame in memory, its mutators called one at a time.              *)
(***************************************************************************)
\* TrustFrame::addBalance
AddBalance ==
    /\ \E amount \in Deltas :
         LET r == addBalance(trustFrame, amount, ledgerVersion)
         IN  /\ trustFrame' = r.frame
             /\ lastCall' = CallRecord("addBalance", amount, FALSE, r.res)
    /\ UNCHANGED <<ledgerVersion, bulk, dataVars, bucketVars, trustVars,
                   storeVars, equivVars, readVars, flushVars>>

\* TrustFrame::addBuyingLiabilities; it asserts the ledger version
AddBuyingLiabilities ==
    /\ ledgerVersion >= LiabilitiesVersion
    /\ \E amount \in Deltas :
         LET r == addBuyingLiabilities(trustFrame, amount)
         IN  /\ trustFrame' = r.frame
             /\ lastCall' = CallRecord("addBuyingLiabilities", amount, FALSE,
                                       r.res)
    /\ UNCHANGED <<ledgerVersion, bulk, dataVars, bucketVars, trustVars,
                   storeVars, equivVars, readVars, flushVars>>

\* TrustFrame::addSellingLiabilities; it asserts the ledger version
AddSellingLiabilities ==
    /\ ledgerVersion >= LiabilitiesVersion
    /\ \E amount \in Deltas :
         LET r == addSellingLiabilities(trustFrame, amount)
         IN  /\ trustFrame' = r.frame
             /\ lastCall' = CallRecord("addSellingLiabilities", amount, FALSE,
                                       r.res)
    /\ UNCHANGED <<ledgerVersion, bulk, dataVars, bucketVars, trustVars,
                   storeVars, equivVars, readVars, flushVars>>

\* TrustFrame::setAuthorized
SetAuthorized ==
    /\ \E authorized \in BOOLEAN :
         /\ trustFrame' = setAuthorized(trustFrame, authorized)
         /\ lastCall' = CallRecord("setAuthorized", 0, authorized, TRUE)
    /\ UNCHANGED <<ledgerVersion, bulk, dataVars, bucketVars, trustVars,
                   storeVars, equivVars, readVars, flushVars>>

\* TrustFrame::getAvailableBalance, getMinimumLimit, getMaxAmountReceive:
\* const member functions, the frame is left as it is.
GetAvailableBalance ==
    /\ lastCall' = AmountRecord("getAvailableBalance",
                                getAvailableBalance(trustFrame, ledgerVersion))
    /\ UNCHANGED <<trustFrame, ledgerVersion, bulk, dataVars, bucketVars,
                   trustVars, storeVars, equivVars, readVars, flushVars>>

GetMinimumLimit ==
    /\ lastCall' = AmountRecord("getMinimumLimit",
                                getMinimumLimit(trustFrame, ledgerVersion))
    /\ UNCHANGED <<trustFrame, ledgerVersion, bulk, dataVars, bucketVars,
                   trustVars, storeVars, equivVars, readVars, flushVars>>

GetMaxAmountReceive ==
    /\ lastCall' = AmountRecord("getMaxAmountReceive",
                                getMaxAmountReceive(trustFrame, ledgerVersion))
    /\ UNCHANGED <<trustFrame, ledgerVersion, bulk, dataVars, bucketVars,
                   trustVars, storeVars, equivVars, readVars, flushVars>>

\* A frame over a trust line of the ledger, or the issuer's frame.
InitTrust ==
    /\ ledgerVersion \in {LiabilitiesVersion - 1, LiabilitiesVersion}
    /\ trustFrame \in
          {[mTrustLine |-> tl, mIsIssuer |-> FALSE] : tl \in TrustLines}
              \cup {createIssuerFrame}
    /\ lastCall = NoCall(trustFrame)
    /\ IdleData
    /\ IdleBucket
    /\ IdleStore
    /\ IdleEquiv
    /\ IdleRead
    /\ IdleFlush

NextTrust ==
    \/ AddBalance
    \/ AddBuyingLiabilities
    \/ AddSellingLiabilities
    \/ SetAuthorized
    \/ GetAvailableBalance
    \/ GetMinimumLimit
    \/ GetMaxAmountReceive

SpecTrust == InitTrust /\ [][NextTrust]_vars

\* BucketApplicator::BucketApplicator over a database and a bucket
(***************************************************************************)
(* The trust-line store when the account may be the asset's issuer.        *)
(***************************************************************************)
\* The keys of the accounts 0..NumAccounts for the asset issued by account 0.
IssuerKeys ==
    {[accountID |-> a, issuer |-> 0, assetCode |-> "USD"] : a \in 0..NumAccounts}

\* A read of this store: as ReadRecord, with hit "unasked" when the cache
\* was not asked, and whether the call returned normally.
NoIssuerRead ==
    [op |-> "none", key |-> 0, hit |-> "unasked", queried |-> FALSE,
     found |-> FALSE, ok |-> TRUE]
IssuerReadRecord(op, key, hit, queried, found, threw) ==
    [op |-> op, key |-> key.accountID, hit |-> hit, queried |-> queried,
     found |-> found, ok |-> ~threw]

\* TrustFrame::storeAddOrChange on the frame of some account; the frame of
\* the issuer's account is either the one createIssuerFrame made or one
\* that is not flagged.  One payload is written: what is stored for an
\* account matters here only through its presence.
IssuerAddOrChange ==
    /\ \E key \in IssuerKeys, v \in {NumValues}, flagged \in BOOLEAN :
         /\ flagged => key.accountID = key.issuer
         /\ LET frame == IF flagged
                         THEN [entry |-> IssuerEntry(key), mIsIssuer |-> TRUE]
                         ELSE TrustFrameOf(key, v)
                r == TrustStoreAddOrChange(TrustState, frame, BucketLedgerSeq,
                                           bulk)
            IN  /\ trustlines' = r.st.trustlines
                /\ mItems' = r.st.mItems
                /\ cache' = r.st.cache
                /\ delta' = Record(EmptyDelta, r.delta, key)
                /\ lastOp' = OpRecord(IF flagged THEN "addOrChangeIssuerFrame"
                                      ELSE "addOrChange",
                                      key, {}, bulk, r.threw, FALSE,
                                      r.affected)
    /\ lastRead' = NoIssuerRead
    /\ UNCHANGED <<bulk, bucketVars, dataVars, entryType, headerLedgerSeq,
                   equivVars,
                   frameVars, flushVars>>

\* TrustFrame::storeDelete for the key of some account
IssuerDelete ==
    /\ \E key \in IssuerKeys :
         LET r == TrustStoreDelete(TrustState, key, bulk)
         IN  /\ trustlines' = r.st.trustlines
             /\ mItems' = r.st.mItems
             /\ cache' = r.st.cache
             /\ delta' = Record(EmptyDelta, r.delta, key)
             /\ lastOp' = OpRecord("delete", key, {}, bulk, r.threw, FALSE, 0)
    /\ lastRead' = NoIssuerRead
    /\ UNCHANGED <<bulk, bucketVars, dataVars, entryType, headerLedgerSeq,
                   equivVars,
                   frameVars, flushVars>>

\* TrustFrame::loadTrustLine for some account
IssuerLoad ==
    /\ \E key \in IssuerKeys :
         LET r == loadTrustLine(TrustState, key)
         IN  /\ cache' = r.cache
             /\ lastRead' = IssuerReadRecord("load", key,
                                IF r.asked THEN CacheHit(cache, key)
                                ELSE "unasked",
                                r.queried, r.ret # {}, FALSE)
    /\ UNCHANGED <<bulk, trustlines, mItems, bucketVars, dataVars, storeVars,
                   equivVars, frameVars, flushVars>>

\* TrustFrame::exists for the key of some account
IssuerExists ==
    /\ \E key \in IssuerKeys :
         LET r == TrustFrameExists(TrustState, key)
         IN  lastRead' = IssuerReadRecord("exists", key, CacheHit(cache, key),
                                          r.queried, r.ret, r.threw)
    /\ UNCHANGED <<bulk, trustVars, bucketVars, dataVars, storeVars,
                   equivVars, frameVars, flushVars>>

\* TrustFrame::createAccumulator, and the accumulator going out of scope
IssuerCreateAccumulator ==
    /\ ~bulk
    /\ bulk' = TRUE
    /\ mItems' = EmptyMap
    /\ UNCHANGED <<trustlines, cache, bucketVars, dataVars, storeVars,
                   equivVars, readVars, frameVars, flushVars>>

IssuerDestroyAccumulator ==
    /\ bulk
    /\ trustlines' = FlushAccumulator(trustlines, mItems)
    /\ mItems' = EmptyMap
    /\ bulk' = FALSE
    /\ lastRead' = NoIssuerRead
    /\ UNCHANGED <<cache, bucketVars, dataVars, storeVars, equivVars,
                   frameVars, flushVars>>

InitIssuer ==
    /\ entryType = "TRUSTLINE"
    /\ trustlines = [k \in {getKeyFields(key) : key \in IssuerKeys} |-> {}]
    /\ mItems = EmptyMap
    /\ cache = EmptyMap
    /\ delta = EmptyDelta
    /\ lastOp = NoOp(entryType)
    /\ headerLedgerSeq = BucketLedgerSeq
    /\ lastRead = NoIssuerRead
    /\ IdleData
    /\ IdleBucket
    /\ IdleEquiv
    /\ IdleFrame
    /\ IdleFlush

NextIssuer ==
    \/ IssuerAddOrChange
    \/ IssuerDelete
    \/ IssuerLoad
    \/ IssuerExists
    \/ IssuerCreateAccumulator
    \/ IssuerDestroyAccumulator

SpecIssuer == InitIssuer /\ [][NextIssuer]_vars

(***************************************************************************)
(* The flush of an accumulator by itself: some staged records, some rows,  *)
(* and the destructor run on them.                                         *)
(***************************************************************************)
FlushKeys ==
    {[accountID |-> a, issuer |-> 0, assetCode |-> "USD"] :
        a \in 1..NumFlushKeys}
FlushKeyFields == {getKeyFields(key) : key \in FlushKeys}

\* What mItems can hold for a key: no value record, or the record of a write.
StagedRecords ==
    {{}} \cup {{ValOf(touch(TrustFrameOf(key, v).entry, BucketLedgerSeq))} :
                  key \in FlushKeys, v \in Values}

FlushItems ==
    UNION {[S -> StagedRecords] : S \in SUBSET FlushKeyFields}

FlushTableOf(init) ==
    [kf \in FlushKeyFields |->
        UNION {IF init[key] = 0 THEN {}
               ELSE {TrustRow(kf, ValOf(TrustFrameOf(key, init[key]).entry))} :
                  key \in {x \in FlushKeys : getKeyFields(x) = kf}}]

\* The accumulator goes out of scope: ~trustlinesAccumulator
FlushStaged ==
    /\ ~flushOut.done
    /\ LET stmts == ExecutedStatements(flushIn.items)
       IN  flushOut' = [done |-> TRUE,
                        executed |-> stmts,
                        upsert |-> UpsertVectors(flushIn.items),
                        delete |-> DeleteVectors(flushIn.items),
                        table |-> ExecuteAll(flushIn.table, stmts, 1)]
    /\ UNCHANGED <<flushIn, bulk, dataVars, bucketVars, trustVars, storeVars,
                   equivVars, readVars, frameVars>>

InitFlush ==
    /\ \E items \in FlushItems, init \in [FlushKeys -> 0..NumValues] :
          flushIn = [items |-> items, table |-> FlushTableOf(init)]
    /\ flushOut = [done |-> FALSE]
    /\ IdleData
    /\ IdleBucket
    /\ IdleStore
    /\ IdleEquiv
    /\ IdleRead
    /\ IdleFrame

NextFlush == FlushStaged

SpecFlush == InitFlush /\ [][NextFlush]_vars

InitBucket ==
    /\ bucket \in [len : BucketLens, shape : 0..MaxShape]
    /\ initStore \in 0..MaxInitStore
    /\ bulk \in BOOLEAN
    /\ accountdata = InitialTable(bucket.len, initStore)
    /\ accountdata_bulk \in StagedBefore(bucket.len, initStore, bulk)
    /\ mBucketIter = 0
    /\ mSize = 0
    /\ adv_calls = 0
    /\ outcome = "none"
    /\ txBegin = Tables
    /\ iterBegin = 0
    /\ failedAt = -1
    /\ trace = <<>>
    /\ faults = 0
    /\ IdleStore
    /\ IdleEquiv
    /\ IdleRead
    /\ IdleFrame
    /\ IdleFlush

NextBucket == Advance \/ AdvanceWriteFails \/ AdvanceFlushFails

SpecBucket == InitBucket /\ [][NextBucket]_vars

(***************************************************************************)
(* Claims about BucketApplicator, stated over SpecBucket.                  *)
(***************************************************************************)
Failed == outcome \in {"threw", "terminated"}

CeilDiv(n, d) == (n + d - 1) \div d

\* What accountdata holds once every entry of the bucket has taken effect.
BucketResult(b) ==
    [k \in 0..(b.len - 1) |->
        IF BucketAt(b, k).type = "LIVEENTRY"
        THEN {DataRow(BucketAt(b, k))} ELSE {}]

Writes(t) == SelectSeq(t, LAMBDA e : e >= 0)

\* C1: when a storage write or the accumulator's flush fails during
\* advance(), the tables are afterwards what they were when that call
\* began, and the error reaches the caller of advance() as an exception.
C1_FailureRollsBackAndPropagates ==
    Failed => (Tables = txBegin /\ outcome = "threw")

\* C2: every advance() that returns has applied exactly ChunkMask + 1 = 256
\* entries when that many remained, and all remaining entries otherwise.
C2_EveryChunkIs256 ==
    outcome = "ok" =>
        mBucketIter - iterBegin =
            Min(ChunkMask + 1, bucket.len - iterBegin)

\* C3: without faults a bucket of N entries has more work exactly until
\* ceil(N / 256) calls have returned; a call on a bucket with more work
\* consumes at least one entry; a call on an exhausted applicator changes
\* neither the tables nor the iterator.
C3_ExhaustedAfterCeilCalls ==
    /\ faults = 0 =>
          (HasMore(bucket, mBucketIter) <=>
              adv_calls < CeilDiv(bucket.len, ChunkMask + 1))
    /\ (outcome = "ok" /\ HasMore(bucket, iterBegin)) =>
          mBucketIter > iterBegin
    /\ (outcome = "ok" /\ ~HasMore(bucket, iterBegin)) =>
          (Tables = txBegin /\ mBucketIter = iterBegin)

\* C4: after a failed advance() the iterator is not past the failed entry,
\* and resuming with advance() until the bucket is exhausted leaves
\* accountdata as the whole bucket defines it.
C4_RetryAppliesWholeBucket ==
    /\ outcome = "threw" => mBucketIter <= failedAt
    /\ (outcome = "ok" /\ ~HasMore(bucket, mBucketIter)) =>
          accountdata = BucketResult(bucket)

\* C5: in a run without faults the writes are issued in bucket order, one
\* per entry consumed, and every transaction is committed before the next
\* one begins and before any later write is issued.
C5_InOrderOncePerEntry ==
    faults = 0 =>
        /\ Writes(trace) = [i \in 1..mBucketIter |-> i - 1]
        /\ \A p \in 1..Len(trace) :
              /\ trace[p] = BeginTx => (p = 1 \/ trace[p - 1] = CommitTx)
              /\ trace[p] >= 0 => (p > 1 /\ trace[p - 1] # CommitTx)
              /\ trace[p] = CommitTx => p > 1
        /\ (trace # <<>> => trace[Len(trace)] = CommitTx)

C5_Witness ==
    /\ faults = 0 /\ outcome = "ok" /\ adv_calls >= 3
    /\ iterBegin > ChunkMask /\ mBucketIter > iterBegin
    /\ ~HasMore(bucket, mBucketIter)

(***************************************************************************)
(* Store operations: what the claims speak of.                             *)
(***************************************************************************)
\* The rows / entries of key in a primary table pair (data, trust).
RowsIn(type, data, trust, key) ==
    IF type = "DATA" THEN data[key] ELSE trust[getKeyFields(key)]

EntriesIn(type, data, trust, key) ==
    IF type = "DATA" THEN loadData(data, key)
    ELSE {RowToEntry(r) : r \in trust[getKeyFields(key)]}

\* The same for the staging store: accountdata_bulk, or mItems.
StagedRowsIn(type, databulk, items, key) ==
    IF type = "DATA" THEN databulk[key]
    ELSE IF getKeyFields(key) \in DOMAIN items
         THEN {TrustRow(getKeyFields(key), v) : v \in items[getKeyFields(key)]}
         ELSE {}

StagedEntriesIn(type, databulk, items, key) ==
    IF type = "DATA" THEN loadData(databulk, key)
    ELSE {RowToEntry(r) : r \in StagedRowsIn(type, databulk, items, key)}

\* A step that is a store call; a step that closes a batch.
StoreStep == lastOp'.tick # lastOp.tick
FlushStep == bulk /\ ~bulk'

\* What a reader of the key written last is given now.
ReadNow ==
    IF entryType = "DATA" THEN loadData(accountdata, lastOp.key)
    ELSE loadTrustLine(TrustState, lastOp.key).ret

\* C6: for every run of live / dead entries and all first rows, the
\* accumulator path (staged, then flushed or merged when the run ends) and
\* the direct path leave the same primary table and the same added /
\* modified / deleted sets in the Ledger Delta.
C6_AccumulatorPathEqualsDirectPath ==
    equivOut.done =>
        /\ equivOut.accum.primary = equivOut.direct.primary
        /\ equivOut.accum.delta = equivOut.direct.delta

C8_AddedIffAbsentFromPrimary ==
    [][ (StoreStep /\ entryType = "DATA" /\ lastOp'.op = "addOrChange"
                   /\ lastOp'.ok) =>
            /\ lastOp'.key \in delta'.added <=> accountdata[lastOp'.key] = {}
            /\ lastOp'.key \in delta'.modified <=>
                   accountdata[lastOp'.key] # {}
      ]_vars

\* C9: storeDelete always returns normally and records the key as deleted;
\* if the primary table holds no row for the key it is left as it is; a
\* direct delete leaves no row for the key, so that a second delete running
\* finds the key absent and changes nothing; a staged delete of an absent
\* key leaves it absent when the batch is closed.
C9_DeleteOfAbsentKeyIsNoOp ==
    [][ /\ (StoreStep /\ lastOp'.op = "delete") =>
              /\ lastOp'.ok
              /\ lastOp'.key \in delta'.deleted
              /\ RowsIn(entryType, accountdata, trustlines, lastOp'.key) = {}
                    => /\ accountdata' = accountdata
                       /\ trustlines' = trustlines
              /\ ~lastOp'.staged =>
                    RowsIn(entryType, accountdata', trustlines',
                           lastOp'.key) = {}
        /\ (FlushStep /\ lastOp.op = "delete" /\ lastOp.ok /\ lastOp.staged
                      /\ RowsIn(entryType, accountdata, trustlines,
                                lastOp.key) = {}) =>
              RowsIn(entryType, accountdata', trustlines', lastOp.key) = {}
      ]_vars

C9_Witness ==
    /\ lastOp.op = "delete"
    /\ lastOp.ok
    /\ ~lastOp.existed
    /\ lastOp.key \in delta.deleted
    /\ RowsIn(entryType, accountdata, trustlines, lastOp.key) = {}

\* C10: after a store call on key K that returned normally, direct or staged,
\* a read of K gives the state the call wrote (for a delete: no entry), also
\* while the batch that staged it is still open.
C10_ReadAfterWriteSeesTheWrite ==
    (lastOp.op # "none" /\ lastOp.ok) => ReadNow = lastOp.post

(***************************************************************************)
(* Claims about the trust line in memory, stated over SpecTrust.           *)
(***************************************************************************)
Line == trustFrame.mTrustLine
Before == lastCall.pre
Mutators == {"addBalance", "addBuyingLiabilities", "addSellingLiabilities"}

\* The line is as before but for the AUTHORIZED bit.
SameButAuthorized(a, b) ==
    /\ a.balance = b.balance /\ a.limit = b.limit /\ a.extV = b.extV
    /\ a.buying = b.buying /\ a.selling = b.selling
    /\ a.flags - (IF isAuthorized(a) THEN AUTHORIZED_FLAG ELSE 0)
          = b.flags - (IF isAuthorized(b) THEN AUTHORIZED_FLAG ELSE 0)

\* C11: at ledger version >= 10 a non-issuer line that started within its
\* bounds stays within them after every call, successful or not:
\* 0 <= balance <= limit, 0 <= selling <= balance, 0 <= buying and
\* balance + buying <= limit.
C11_BoundsPreserved ==
    (ledgerVersion >= LiabilitiesVersion /\ ~trustFrame.mIsIssuer) =>
        /\ 0 <= Line.balance /\ Line.balance <= Line.limit
        /\ 0 <= getSellingLiabilities(Line)
        /\ getSellingLiabilities(Line) <= Line.balance
        /\ 0 <= getBuyingLiabilities(Line)
        /\ Line.balance + getBuyingLiabilities(Line) <= Line.limit

C11_Witness ==
    /\ ledgerVersion >= LiabilitiesVersion /\ ~trustFrame.mIsIssuer
    /\ lastCall.op = "addBuyingLiabilities" /\ lastCall.res
    /\ Line.buying > Before.buying
    /\ Line.balance + Line.buying = Line.limit
    /\ Line.selling > 0

\* C12: on an authorized non-issuer line without liabilities, addBalance
\* with a non-zero delta succeeds iff 0 <= balance + delta <= limit; on
\* success the balance is balance + delta and nothing else changed, on
\* failure the line is as it was.
C12_AddBalanceWithinLimit ==
    (/\ lastCall.op = "addBalance" /\ lastCall.delta # 0
     /\ ~trustFrame.mIsIssuer /\ isAuthorized(Before)
     /\ getBuyingLiabilities(Before) = 0
     /\ getSellingLiabilities(Before) = 0) =>
        /\ lastCall.res <=> /\ 0 <= Before.balance + lastCall.delta
                            /\ Before.balance + lastCall.delta <= Before.limit
        /\ lastCall.res =>
              Line = [Before EXCEPT !.balance = @ + lastCall.delta]
        /\ ~lastCall.res => Line = Before

C12_Witness ==
    /\ lastCall.op = "addBalance" /\ lastCall.res
    /\ ~trustFrame.mIsIssuer /\ Before.extV = 0
    /\ Before.balance = 1 /\ lastCall.delta = 2
    /\ Line.balance = Line.limit

\* C13: at ledger version >= 10 addBalance on an authorized non-issuer line
\* fails and changes nothing when balance + delta is below the selling
\* liabilities or above limit - buying liabilities; below version 10 only
\* 0 <= balance + delta <= limit decides.
C13_AddBalanceRespectsLiabilities ==
    (/\ lastCall.op = "addBalance" /\ ~trustFrame.mIsIssuer
     /\ isAuthorized(Before)) =>
        /\ (/\ ledgerVersion >= LiabilitiesVersion
            /\ \/ Before.balance + lastCall.delta
                     < getSellingLiabilities(Before)
               \/ Before.balance + lastCall.delta
                     > Before.limit - getBuyingLiabilities(Before)) =>
              (~lastCall.res /\ Line = Before)
        /\ (ledgerVersion < LiabilitiesVersion /\ lastCall.delta # 0) =>
              (lastCall.res <=>
                  /\ 0 <= Before.balance + lastCall.delta
                  /\ Before.balance + lastCall.delta <= Before.limit)

C13_Witness ==
    /\ lastCall.op = "addBalance" /\ ~lastCall.res
    /\ ~trustFrame.mIsIssuer /\ isAuthorized(Before)
    /\ ledgerVersion >= LiabilitiesVersion
    /\ Before.balance + lastCall.delta >= 0
    /\ Before.balance + lastCall.delta < getSellingLiabilities(Before)
    /\ Line = Before

\* C14: on a non-issuer line whose AUTHORIZED flag is clear every mutator
\* with a non-zero delta returns false and changes nothing, and a zero
\* delta returns true; setAuthorized changes the AUTHORIZED bit and nothing
\* else, whatever the balance; an authorized line accepts an addBalance
\* that is within the bounds.
C14_AuthorizationGate ==
    /\ (lastCall.op \in Mutators /\ ~trustFrame.mIsIssuer
           /\ ~isAuthorized(Before)) =>
          /\ lastCall.delta # 0 => (~lastCall.res /\ Line = Before)
          /\ lastCall.delta = 0 => (lastCall.res /\ Line = Before)
    /\ lastCall.op = "setAuthorized" =>
          /\ lastCall.res
          /\ isAuthorized(Line) = lastCall.authorized
          /\ SameButAuthorized(Line, Before)
    /\ (/\ lastCall.op = "addBalance" /\ ~trustFrame.mIsIssuer
        /\ isAuthorized(Before)
        /\ 0 <= Before.balance + lastCall.delta
        /\ Before.balance + lastCall.delta <= Before.limit
        /\ ledgerVersion >= LiabilitiesVersion =>
              /\ Before.balance + lastCall.delta
                    >= getSellingLiabilities(Before)
              /\ Before.balance + lastCall.delta
                    <= Before.limit - getBuyingLiabilities(Before)) =>
          lastCall.res

C14_Witness ==
    /\ lastCall.op = "addBalance" /\ ~trustFrame.mIsIssuer
    /\ ~isAuthorized(Before) /\ Before.flags > 0
    /\ lastCall.delta > 0
    /\ Before.balance + lastCall.delta <= Before.limit
    /\ ~lastCall.res /\ Line = Before

\* C15: on the frame made by createIssuerFrame every mutator returns true for
\* every delta and changes nothing; the line keeps balance = limit =
\* INT64_MAX and no liabilities, and stays authorized through the mutators.
C15_IssuerFrameIsInert ==
    trustFrame.mIsIssuer =>
        /\ Line.balance = INT64_MAX /\ Line.limit = INT64_MAX
        /\ getBuyingLiabilities(Line) = 0 /\ getSellingLiabilities(Line) = 0
        /\ lastCall.op = "none" => isAuthorized(Line)
        /\ lastCall.op \in Mutators => (lastCall.res /\ Line = Before)

C15_Witness ==
    /\ trustFrame.mIsIssuer
    /\ lastCall.op = "addSellingLiabilities" /\ lastCall.delta > 0
    /\ lastCall.res /\ isAuthorized(Line)
    /\ Line = createIssuerFrame.mTrustLine

\* C16: at ledger version >= 10, on an authorized non-issuer line and for a
\* non-zero delta, addBuyingLiabilities succeeds iff
\* 0 <= buying + delta <= limit - balance and addSellingLiabilities iff
\* 0 <= selling + delta <= balance; on success that liability alone changes
\* (an absent extension appears with the other liability zero), on failure
\* the line is as it was, the extension still absent if it was.
C16_LiabilityBounds ==
    (/\ lastCall.op \in {"addBuyingLiabilities", "addSellingLiabilities"}
     /\ lastCall.delta # 0 /\ ~trustFrame.mIsIssuer
     /\ isAuthorized(Before)) =>
        LET buying == lastCall.op = "addBuyingLiabilities"
            old == IF buying THEN getBuyingLiabilities(Before)
                   ELSE getSellingLiabilities(Before)
            room == IF buying THEN Before.limit - Before.balance
                    ELSE Before.balance
        IN  /\ lastCall.res <=>
                  (0 <= old + lastCall.delta /\ old + lastCall.delta <= room)
            /\ ~lastCall.res => Line = Before
            /\ lastCall.res =>
                  /\ Line.extV = 1
                  /\ Line.flags = Before.flags
                  /\ Line.balance = Before.balance
                  /\ Line.limit = Before.limit
                  /\ Line.buying = IF buying THEN old + lastCall.delta
                                   ELSE getBuyingLiabilities(Before)
                  /\ Line.selling = IF buying
                                    THEN getSellingLiabilities(Before)
                                    ELSE old + lastCall.delta

C16_Witness ==
    /\ lastCall.op = "addBuyingLiabilities" /\ lastCall.res
    /\ ~trustFrame.mIsIssuer
    /\ Before.extV = 0 /\ Line.extV = 1
    /\ Line.buying = lastCall.delta /\ Line.selling = 0

(***************************************************************************)
(* Claims about the reads of the store, stated over SpecStore.             *)
(***************************************************************************)
\* C17: exists answers from the cache when the cache knows the key, true
\* for a cached entry and false for a cached "known absent", in both cases
\* without a storage query; it queries storage only on a cache miss.
C17_ExistsAnswersFromCache ==
    lastRead.op = "exists" =>
        /\ lastRead.hit = "positive" =>
              (lastRead.found /\ ~lastRead.queried)
        /\ lastRead.hit = "absent" =>
              (~lastRead.found /\ ~lastRead.queried)
        /\ lastRead.hit = "miss" => lastRead.queried

\* C18: a load leaves the key in the cache, as the entry or as the absent
\* marker, and a lookup that finds the key in the cache, present or
\* absent, issues no storage query.
C18_SecondLookupIssuesNoQuery ==
    /\ (lastRead.op = "load" /\ entryType = "TRUSTLINE") =>
          \E key \in TrustKeys :
              /\ key.accountID = lastRead.key
              /\ cachedEntryExists(cache, key)
              /\ (getCachedEntry(cache, key) # {}) = lastRead.found
    /\ (lastRead.op = "load" /\ lastRead.hit # "miss") => ~lastRead.queried

(***************************************************************************)
(* Claims about the accumulator, stated over SpecEquiv.                    *)
(***************************************************************************)
\* The indices of the run at which key is written.
WritesTo(ops, key) == {i \in 1..Len(ops) : ops[i].key = key}
LastWriteTo(ops, key) ==
    CHOOSE i \in WritesTo(ops, key) : \A j \in WritesTo(ops, key) : j <= i

\* The trust lines read back from the rows of key in table.
LinesOf(table, key) == {RowToEntry(r) : r \in table[getKeyFields(key)]}

\* C19: staging replaces what was staged for the key: after the flush each
\* key holds the effect of the last operation staged for it alone, no row
\* after a delete and the row of the upsert's fields after an upsert; a key
\* nothing was staged for keeps its row.
C19_LastStagedWriteWins ==
    (equivOut.done /\ equivIn.type = "TRUSTLINE") =>
        \A key \in TrustKeys :
            LinesOf(equivOut.accum.primary, key) =
                IF WritesTo(equivIn.ops, key) = {}
                THEN LinesOf(TrustTableOf(equivIn.init), key)
                ELSE LET e == equivIn.ops[LastWriteTo(equivIn.ops, key)]
                     IN  IF e.live
                         THEN {touch(TrustFrameOf(key, e.v).entry,
                                     BucketLedgerSeq)}
                         ELSE {}

C19_Witness ==
    /\ equivOut.done /\ equivIn.type = "TRUSTLINE"
    /\ Len(equivIn.ops) = 2
    /\ \E key \in TrustKeys :
          /\ equivIn.init[key] # 0
          /\ equivIn.ops[1].key = key /\ equivIn.ops[1].live
          /\ equivIn.ops[2].key = key /\ ~equivIn.ops[2].live
          /\ LinesOf(equivOut.accum.primary, key) = {}

(***************************************************************************)
(* Claims about the flush, stated over SpecFlush.                          *)
(***************************************************************************)
Present == {k \in DOMAIN flushIn.items : flushIn.items[k] # {}}
Absent == {k \in DOMAIN flushIn.items : flushIn.items[k] = {}}

\* The statements of one kind among those executed.
Executed(sql) ==
    {i \in 1..Len(flushOut.executed) : flushOut.executed[i].sql = sql}

\* The places of key k in the upsert and in the delete vectors.
UpsertPlaces(k) ==
    {i \in 1..Len(flushOut.upsert.insertUpdateAccountIDs) :
        /\ flushOut.upsert.insertUpdateAccountIDs[i] = k.accountid
        /\ flushOut.upsert.insertUpdateIssuers[i] = k.issuer
        /\ flushOut.upsert.insertUpdateAssetCodes[i] = k.assetcode}
DeletePlaces(k) ==
    {i \in 1..Len(flushOut.delete.deleteAccountIDs) :
        /\ flushOut.delete.deleteAccountIDs[i] = k.accountid
        /\ flushOut.delete.deleteIssuers[i] = k.issuer
        /\ flushOut.delete.deleteAssetCodes[i] = k.assetcode}

\* Every staged key is in one group, once, and all vectors of a statement
\* have the length of its group.
GroupsPartitionAndAlign ==
    /\ \A k \in Present :
          Cardinality(UpsertPlaces(k)) = 1 /\ DeletePlaces(k) = {}
    /\ \A k \in Absent :
          Cardinality(DeletePlaces(k)) = 1 /\ UpsertPlaces(k) = {}
    /\ \A c \in DOMAIN flushOut.upsert :
          Len(flushOut.upsert[c]) = Cardinality(Present)
    /\ \A c \in DOMAIN flushOut.delete :
          Len(flushOut.delete[c]) = Cardinality(Absent)
    /\ \A i \in 1..Len(flushOut.executed) :
          flushOut.executed[i].use =
              IF flushOut.executed[i].sql = "INSERT INTO trustlines"
              THEN flushOut.upsert ELSE flushOut.delete

\* C20 as stated: on flush every staged key goes to exactly one group, the
\* upsert statement and the delete statement are each executed exactly
\* once whatever the number of staged keys, and all column vectors of a
\* statement have the length of its group.
C20_EachStatementExactlyOnce ==
    flushOut.done =>
        /\ GroupsPartitionAndAlign
        /\ Cardinality(Executed("INSERT INTO trustlines")) = 1
        /\ Cardinality(Executed("DELETE FROM trustlines")) = 1

\* C20 amended: on flush every staged key goes to exactly one group, the
\* upsert statement is executed exactly once when some staged key has a
\* value record and not at all otherwise, the delete statement exactly
\* once when some staged key has none and not at all otherwise, whatever
\* the number of staged keys; all column vectors of a statement have the
\* length of its group.
C20_EachNonEmptyGroupExactlyOnce ==
    flushOut.done =>
        /\ GroupsPartitionAndAlign
        /\ Cardinality(Executed("INSERT INTO trustlines")) =
              IF Present = {} THEN 0 ELSE 1
        /\ Cardinality(Executed("DELETE FROM trustlines")) =
              IF Absent = {} THEN 0 ELSE 1

C20_Witness ==
    /\ flushOut.done
    /\ Cardinality(Present) = NumFlushKeys /\ Absent = {}
    /\ Len(flushOut.executed) = 1
    /\ Len(flushOut.executed[1].use.buyingliabilitiesInds) = NumFlushKeys
    /\ \E k \in Present : flushOut.table[k] # flushIn.table[k]

(***************************************************************************)
(* Claims about failing writes, stated over SpecStore.                     *)
(***************************************************************************)
\* C21: a storeAddOrChange made while no batch is open, whose write
\* statement reports a row count other than 1, ends in an error, records
\* the entry neither as added nor as modified and leaves the tables as they
\* were; one whose statement reports 1 returns normally.
C21_WrongRowCountIsFatal ==
    [][ (StoreStep /\ lastOp'.op = "addOrChange" /\ ~bulk) =>
            /\ lastOp'.affected # 1 =>
                  /\ ~lastOp'.ok
                  /\ lastOp'.key \notin delta'.added
                  /\ lastOp'.key \notin delta'.modified
                  /\ accountdata' = accountdata
                  /\ trustlines' = trustlines
            /\ lastOp'.affected = 1 => lastOp'.ok
      ]_vars

C21_Witness ==
    /\ lastOp.op = "addOrChange" /\ ~lastOp.ok /\ ~bulk
    /\ lastOp.affected = 0
    /\ delta = EmptyDelta
    /\ entryType = "DATA"
    /\ accountdata[lastOp.key] = {}

(***************************************************************************)
(* Claims about the issuer's own trust line, stated over SpecIssuer.       *)
(***************************************************************************)
IssuerKeyFields ==
    {getKeyFields(key) : key \in {x \in IssuerKeys : x.accountID = x.issuer}}

\* C22: loadTrustLine for the issuer's account returns the synthetic line
\* without asking the cache or querying storage; storeAddOrChange on the
\* issuer line returns without a write to trustlines and without staging
\* anything; trustlines never holds a row for the issuer's key, and
\* nothing is staged for it.
C22_IssuerLineNeverStored ==
    /\ [][ /\ (lastRead' # lastRead /\ lastRead'.op = "load"
                                   /\ lastRead'.key = 0) =>
                 /\ lastRead'.found
                 /\ lastRead'.hit = "unasked"
                 /\ ~lastRead'.queried
                 /\ cache' = cache
           /\ (StoreStep /\ lastOp'.op = "addOrChangeIssuerFrame") =>
                 /\ lastOp'.ok
                 /\ trustlines' = trustlines
                 /\ mItems' = mItems
         ]_vars
    /\ [](\A k \in IssuerKeyFields :
              trustlines[k] = {} /\ k \notin DOMAIN mItems)

C22_Witness ==
    /\ lastOp.op = "addOrChangeIssuerFrame" /\ lastOp.ok /\ bulk
    /\ mItems = EmptyMap
    /\ lastRead.op = "load" /\ lastRead.key = 0 /\ lastRead.found
    /\ \E k \in DOMAIN trustlines : trustlines[k] # {}

\* C27: for a key whose account is the asset's issuer, storeDelete,
\* exists, and storeAddOrChange on a frame not flagged as the issuer line
\* all end in an error, and leave trustlines and the staged map as they
\* were.
C27_IssuerKeyIsRefused ==
    [][ /\ (StoreStep /\ lastOp'.op \in {"addOrChange", "delete"}
                      /\ lastOp'.key.accountID = lastOp'.key.issuer) =>
              /\ ~lastOp'.ok
              /\ trustlines' = trustlines
              /\ mItems' = mItems
        /\ (lastRead' # lastRead /\ lastRead'.op = "exists"
                                /\ lastRead'.key = 0) =>
              /\ ~lastRead'.ok
              /\ ~lastRead'.queried
              /\ trustlines' = trustlines
              /\ mItems' = mItems
      ]_vars

C27_Witness ==
    /\ lastOp.op = "delete" /\ lastOp.key.accountID = lastOp.key.issuer
    /\ ~lastOp.ok /\ bulk
    /\ mItems # EmptyMap
    /\ lastRead.op = "exists" /\ lastRead.key = 0 /\ ~lastRead.ok

(***************************************************************************)
(* Claims about the derived amounts, stated over SpecTrust.                *)
(***************************************************************************)
Getters == {"getAvailableBalance", "getMinimumLimit", "getMaxAmountReceive"}

\* The bounds of C11 on the line tl.
WithinBounds(tl) ==
    /\ 0 <= tl.balance /\ tl.balance <= tl.limit
    /\ 0 <= getSellingLiabilities(tl)
    /\ getSellingLiabilities(tl) <= tl.balance
    /\ 0 <= getBuyingLiabilities(tl)
    /\ tl.balance + getBuyingLiabilities(tl) <= tl.limit

\* C23: at version >= 10 getAvailableBalance is balance - selling
\* liabilities and getMinimumLimit is balance + buying liabilities, below
\* 10 both are the balance; getMaxAmountReceive is INT64_MAX on the issuer
\* line, 0 on an unauthorized line and otherwise limit - balance, less the
\* buying liabilities at version >= 10; none changes the line, and on a
\* line within its bounds each amount is >= 0.
C23_DerivedAmounts ==
    lastCall.op \in Getters =>
        /\ Line = Before
        /\ lastCall.op = "getAvailableBalance" =>
              lastCall.value =
                  IF ledgerVersion >= LiabilitiesVersion
                  THEN Before.balance - getSellingLiabilities(Before)
                  ELSE Before.balance
        /\ lastCall.op = "getMinimumLimit" =>
              lastCall.value =
                  IF ledgerVersion >= LiabilitiesVersion
                  THEN Before.balance + getBuyingLiabilities(Before)
                  ELSE Before.balance
        /\ lastCall.op = "getMaxAmountReceive" =>
              lastCall.value =
                  IF trustFrame.mIsIssuer THEN INT64_MAX
                  ELSE IF ~isAuthorized(Before) THEN 0
                  ELSE IF ledgerVersion >= LiabilitiesVersion
                  THEN Before.limit - Before.balance
                          - getBuyingLiabilities(Before)
                  ELSE Before.limit - Before.balance
        /\ WithinBounds(Before) => lastCall.value >= 0

C23_Witness ==
    /\ lastCall.op = "getMaxAmountReceive" /\ ~trustFrame.mIsIssuer
    /\ ~isAuthorized(Before) /\ Before.balance < Before.limit
    /\ lastCall.value = 0
    /\ ledgerVersion >= LiabilitiesVersion /\ Before.buying > 0

\* C29: on an authorized non-issuer line within its bounds at version
\* >= 10, addBalance(d) with d > 0 succeeds iff d <= getMaxAmountReceive()
\* and addBalance(-d) succeeds iff d <= getAvailableBalance(); on an
\* unauthorized line getMaxAmountReceive() is 0 and no addBalance of a
\* positive amount succeeds.
C29_AddBalanceAgreesWithDerivedAmounts ==
    (lastCall.op = "addBalance" /\ ~trustFrame.mIsIssuer) =>
        LET before == [mTrustLine |-> Before, mIsIssuer |-> FALSE]
        IN  /\ (/\ isAuthorized(Before) /\ WithinBounds(Before)
                /\ ledgerVersion >= LiabilitiesVersion) =>
                  /\ lastCall.delta > 0 =>
                        (lastCall.res <=>
                            lastCall.delta
                               <= getMaxAmountReceive(before, ledgerVersion))
                  /\ lastCall.delta < 0 =>
                        (lastCall.res <=>
                            0 - lastCall.delta
                               <= getAvailableBalance(before, ledgerVersion))
            /\ ~isAuthorized(Before) =>
                  /\ getMaxAmountReceive(before, ledgerVersion) = 0
                  /\ lastCall.delta > 0 => ~lastCall.res

C29_Witness ==
    /\ lastCall.op = "addBalance" /\ ~trustFrame.mIsIssuer
    /\ isAuthorized(Before) /\ ledgerVersion >= LiabilitiesVersion
    /\ lastCall.delta > 0 /\ ~lastCall.res
    /\ Before.balance + lastCall.delta <= Before.limit
    /\ lastCall.delta >
          getMaxAmountReceive([mTrustLine |-> Before, mIsIssuer |-> FALSE],
                              ledgerVersion)

(***************************************************************************)
(* Claims about the batch of an advance(), stated over SpecBucket.         *)
(***************************************************************************)
\* What accountdata is to hold for key k once entry k has taken effect.
EffectOf(b, k) ==
    IF BucketAt(b, k).type = "LIVEENTRY" THEN {DataRow(BucketAt(b, k))} ELSE {}

\* C24: when advance() returns normally the batch has been merged before
\* the commit: no staged row differs from the row accountdata holds for its
\* key, and every entry the iterator has consumed so far has its effect in
\* accountdata.
C24_MergedBeforeCommit ==
    outcome = "ok" =>
        /\ trace[Len(trace)] = CommitTx
        /\ \A k \in DOMAIN accountdata_bulk :
              accountdata_bulk[k] # {} => accountdata[k] = accountdata_bulk[k]
        /\ \A i \in 0..(mBucketIter - 1) :
              accountdata[i] = EffectOf(bucket, i)

\* C28: once a bucket has been applied to its end without an error,
\* accountdata holds no row for the key of a dead entry and exactly the
\* payload of the entry for the key of a live entry, with or without
\* batches, whatever was staged before.
C28_FinalStateIsTheBucket ==
    (faults = 0 /\ outcome = "ok" /\ ~HasMore(bucket, mBucketIter)) =>
        \A k \in 0..(bucket.len - 1) : accountdata[k] = EffectOf(bucket, k)

\* C25: the bulk merge updates, then inserts what is absent: after
\* mergeAccumulated every key that has a row in accountdata_bulk has in
\* accountdata a row with exactly the staged value and lastmodified, and the
\* rows of accountdata whose key is not staged are unchanged.
C25_MergeUpdatesThenInserts ==
    [][(entryType = "DATA" /\ FlushStep) =>
          \A k \in DOMAIN accountdata :
             IF accountdata_bulk[k] # {}
             THEN /\ accountdata'[k] # {}
                  /\ \A r \in accountdata'[k] : \E s \in accountdata_bulk[k] :
                        /\ r.datavalue = s.datavalue
                        /\ r.lastmodified = s.lastmodified
             ELSE accountdata'[k] = accountdata[k]]_vars

\* A merge has run that met a staged row whose key already had a row.
C25_Witness ==
    /\ entryType = "DATA"
    /\ ~bulk
    /\ lastOp.op = "addOrChange" /\ lastOp.staged /\ lastOp.existed
    /\ lastOp.ok
    /\ accountdata_bulk[lastOp.key] # {}
    /\ accountdata[lastOp.key] = accountdata_bulk[lastOp.key]

(***************************************************************************)
(* Claims about lastModifiedLedgerSeq, stated over SpecTouch.              *)
(***************************************************************************)
\* The lastmodified a successful storeAddOrChange left for its key, next to
\* the lastModifiedLedgerSeq its frame carried when it was handed over.
Written ==
    LET k == lastOp'.key
    IN  IF entryType = "DATA"
        THEN {[seq |-> r.lastmodified,
               carried |-> DataFrameOf(k, decode_b64(r.datavalue))
                              .lastModifiedLedgerSeq] :
                r \in IF lastOp'.staged THEN accountdata_bulk'[k]
                                        ELSE accountdata'[k]}
        ELSE IF lastOp'.staged
        THEN {[seq |-> v.lastmodified,
               carried |-> TrustFrameOf(k, v.balance).entry
                              .lastModifiedLedgerSeq] :
                v \in mItems'[getKeyFields(k)]}
        ELSE {[seq |-> r.lastmodified,
               carried |-> TrustFrameOf(k, r.balance).entry
                              .lastModifiedLedgerSeq] :
                r \in trustlines'[getKeyFields(k)]}

\* C26: storeAddOrChange writes the delta's ledger sequence as lastmodified
\* when that sequence is not 0 and the entry's own lastModifiedLedgerSeq
\* when it is 0, which is the sequence a bucket import uses; a flush
\* persists the lastmodified that was staged.
C26_TouchedUnlessSequenceZero ==
    [][/\ (StoreStep /\ lastOp'.op = "addOrChange" /\ lastOp'.ok) =>
             /\ Written # {}
             /\ \A w \in Written :
                   /\ headerLedgerSeq # 0 => w.seq = headerLedgerSeq
                   /\ headerLedgerSeq = 0 => w.seq = w.carried
                   /\ headerLedgerSeq = BucketLedgerSeq => w.seq = w.carried
       /\ (FlushStep /\ entryType = "TRUSTLINE") =>
             \A k \in DOMAIN mItems : \A v \in mItems[k] :
                 /\ trustlines'[k] # {}
                 /\ \A r \in trustlines'[k] : r.lastmodified = v.lastmodified
      ]_vars

\* A direct write under a delta whose sequence is not 0 and differs from
\* the one the entry carried.
C26_Witness ==
    /\ headerLedgerSeq = MaxLedgerSeq
    /\ lastOp.op = "addOrChange" /\ lastOp.ok /\ ~lastOp.staged
    /\ entryType = "TRUSTLINE"
    /\ \E r \in trustlines[getKeyFields(lastOp.key)] :
          /\ r.lastmodified = headerLedgerSeq
          /\ r.lastmodified #
                TrustFrameOf(lastOp.key, r.balance).entry.lastModifiedLedgerSeq

(***************************************************************************)
(* Claims about delete...ModifiedOnOrAfterLedger, stated over SpecRewind.  *)
(***************************************************************************)
\* The cache entries of type that a rewind to ledger L is to erase.
Erasable(type, L) ==
    {key \in DOMAIN cache :
        \E e \in cache[key] :
            EntryTypeOf(e) = type /\ e.lastModifiedLedgerSeq >= L}

\* The cache lost the keys in gone and nothing else.
CacheLost(gone) ==
    /\ DOMAIN cache' = DOMAIN cache \ gone
    /\ \A key \in DOMAIN cache' : cache'[key] = cache[key]

\* C30: deleteTrustLinesModifiedOnOrAfterLedger(L) and
\* deleteDataModifiedOnOrAfterLedger(L) delete exactly the rows of their type
\* with lastmodified >= L and erase exactly the cached entries of that type
\* with lastModifiedLedgerSeq >= L; everything else is unchanged, and
\* afterwards no positive cache entry is left for a row that was deleted.
C30_RewindDeletesRowsAndCache ==
    [][/\ (StoreStep /\
            lastOp'.op = "deleteTrustLinesModifiedOnOrAfterLedger") =>
             LET L == lastOp'.oldestLedger
             IN  /\ \A k \in DOMAIN trustlines :
                       trustlines'[k] =
                           {r \in trustlines[k] : r.lastmodified < L}
                 /\ CacheLost(Erasable("TRUSTLINE", L))
                 /\ UNCHANGED <<accountdata, accountdata_bulk, mItems>>
                 /\ \A key \in DOMAIN cache' :
                       (cache'[key] # {}) =>
                          ~(/\ trustlines[getKeyFields(key)] # {}
                            /\ trustlines'[getKeyFields(key)] = {})
       /\ (StoreStep /\ lastOp'.op = "deleteDataModifiedOnOrAfterLedger") =>
             LET L == lastOp'.oldestLedger
             IN  /\ \A k \in DOMAIN accountdata :
                       accountdata'[k] =
                           {r \in accountdata[k] : r.lastmodified < L}
                 /\ CacheLost(Erasable("DATA", L))
                 /\ UNCHANGED <<trustlines, mItems>>
      ]_vars

====
